---- MODULE Spec2Model ----
(***************************************************************************)
(* A model of core.py: the operator layer built on the gof graph library.  *)
(*                                                                         *)
(* The module holds several specifications over one set of variables; each *)
(* drives one part of the program and leaves the other parts idle:         *)
(*   SpecDispatch  wrap / literal / input and the scalar_switch families   *)
(*   SpecGrad      omega_op.update_gradient on a gradient accumulator      *)
(*   SpecKernel    the dot / gemm kernel of blas_code.gemm_xyz and its     *)
(*                 execution through c_perform                             *)
(*   SpecCache     omega_op.c_thunk_factory of two processes on one        *)
(*                 compile directory                                       *)
(*   SpecLoop      elemwise.c_code and the two loops of elemwise_wrap      *)
(*   SpecInplace   elemwise.alloc and the interpreted implementation of    *)
(*                 the operators made by elemwise.inplace_version          *)
(***************************************************************************)
EXTENDS Integers, Sequences, FiniteSets, TLC

VARIABLES
    results,          \* the Results created so far, by creation order
    literals_db,      \* literals_db: hashable value -> Result (0: absent)
    literals_id_db,   \* literals_id_db: id(object) -> Result (0: absent)
    ops,              \* the operators constructed so far, by creation order
    last,             \* the last call of a scalar_switch function f(x, y)
    ncalls,           \* calls made so far
    grad_d,           \* the gradient accumulator: Result -> accumulated gradient
    glast,            \* the last update_gradient call
    gsteps,           \* gradient steps made so far
    kin,              \* the operator bound to a BLAS kernel: its arrays
    kres,             \* the outcome of executing it (NotRun before)
    cache,            \* the compile directory: module name -> artifact state
    cur,              \* per process, the c_thunk_factory call in progress
    imported,         \* per process, the modules already imported
    history,          \* per process, the completed c_thunk_factory calls
    lop,              \* an elementwise operator bound to its arrays
    lcode,            \* the loop code generated for it (NoCode before)
    lrun,             \* the execution of that code (NoRun before)
    iop,              \* an in-place operator and the outputs alloc must skip
    idata,            \* Result -> the ndarray object its data is (or UNCOMPUTED)
    iobjs,            \* the ndarray objects: their buffer and rank
    idone,            \* what has been done: alloc, the interpreted implementation
    sop,              \* an elementwise operator without a specs rule, and its inputs' specs
    sret,             \* what its _specs returned or raised (NoInference before)
    souts,            \* its outputs: the spec and the data each one holds
    sstage,           \* how far it got: new, failed, compiled, executed
    vbufs,            \* the memory blocks of the arrays: block -> its elements
    va,               \* the source ndarray a
    vnode,            \* the Result derived from it: transpose, transpose_copy or get_slice
    vlast,            \* the last write to a or item assignment on the node
    vwrites,          \* writes made so far
    eop,              \* an arithmetic operator and the two arrays its implementation gets
    eout,             \* what the implementation returned or raised, and the first array afterwards
    gcall,            \* the last call of the gradient rule of an addition node
    hops,             \* the operators of a graph in which one operator destroys a Result others read
    hdata,            \* Result -> the ndarray object its data is (or UNCOMPUTED)
    hobjs,            \* the ndarray objects: their buffer, rank and contents
    hrun,             \* the operators executed so far, in order, with the values each one read
    mreq,             \* a call of inplace_version: the base class and the aliasing map
    mrun,             \* how far the variant got: derived, constructed, generated, written, or failed
    modes,            \* the stack of active modes
    frames,           \* the calls of build in progress: the stack each one found
    blast             \* the last call of build that ended: how, and the stack before and after

dvars == <<results, literals_db, literals_id_db, ops, last, ncalls>>
gvars == <<grad_d, glast, gsteps>>

kvars == <<kin, kres>>

cvars == <<cache, cur, imported, history>>

lvars == <<lop, lcode, lrun>>

ivars == <<iop, idata, iobjs, idone>>

svars == <<sop, sret, souts, sstage>>

vvars == <<vbufs, va, vnode, vlast, vwrites>>

evars == <<eop, eout>>

avars == <<gcall>>

hvars == <<hops, hdata, hobjs, hrun>>

mvars == <<mreq, mrun>>

bvars == <<modes, frames, blast>>

vars == <<dvars, gvars, kvars, cvars, lvars, ivars, svars, vvars, evars, avars, hvars, mvars, bvars>>

\* the groups a specification leaves alone
exceptD == <<gvars, kvars, cvars, lvars, ivars, svars, vvars, evars, avars, hvars, mvars, bvars>>
exceptG == <<dvars, kvars, cvars, lvars, ivars, svars, vvars, evars, avars, hvars, mvars, bvars>>
exceptK == <<dvars, gvars, cvars, lvars, ivars, svars, vvars, evars, avars, hvars, mvars, bvars>>
exceptC == <<dvars, gvars, kvars, lvars, ivars, svars, vvars, evars, avars, hvars, mvars, bvars>>
exceptL == <<dvars, gvars, kvars, cvars, ivars, svars, vvars, evars, avars, hvars, mvars, bvars>>
exceptI == <<dvars, gvars, kvars, cvars, lvars, svars, vvars, evars, avars, hvars, mvars, bvars>>
exceptS == <<dvars, gvars, kvars, cvars, lvars, ivars, vvars, evars, avars, hvars, mvars, bvars>>
exceptV == <<dvars, gvars, kvars, cvars, lvars, ivars, svars, evars, avars, hvars, mvars, bvars>>
exceptE == <<dvars, gvars, kvars, cvars, lvars, ivars, svars, vvars, avars, hvars, mvars, bvars>>
exceptA == <<dvars, gvars, kvars, cvars, lvars, ivars, svars, vvars, evars, hvars, mvars, bvars>>
exceptH == <<dvars, gvars, kvars, cvars, lvars, ivars, svars, vvars, evars, avars, mvars, bvars>>
exceptM == <<dvars, gvars, kvars, cvars, lvars, ivars, svars, vvars, evars, avars, hvars, bvars>>
exceptB == <<dvars, gvars, kvars, cvars, lvars, ivars, svars, vvars, evars, avars, hvars, mvars>>

----------------------------------------------------------------------------
(* Bounds *)

MaxCalls == 1
MaxGradSteps == 2
MaxFactoryCalls == 2
MaxWrites == 2
MaxWrapCalls == 3
MaxGradCalls == 3
MaxDepth == 3
MaxModes == 4

----------------------------------------------------------------------------
(* Results, raw values, wrap / literal / input                             *)

\* rank of a data value that has no .shape attribute (a list, a string)
NoShape == -1

None == "None"

\* Raw Python values handed to the operators: a number (hashable), ndarrays
\* (unhashable, keyed by id) of rank 2 and rank 0, and a list (unhashable).
RawValues ==
    { [t |-> "num",  v |-> 5, rank |-> 0],
      [t |-> "arr",  v |-> 1, rank |-> 2],
      [t |-> "arr",  v |-> 2, rank |-> 0],
      [t |-> "list", v |-> 3, rank |-> NoShape] }

HashKeys == {x.v : x \in {y \in RawValues : y.t = "num"}}
ObjIds   == {x.v : x \in {y \in RawValues : y.t # "num"}}

\* The graph inputs made with input() before any operator is applied:
\* input(ndarray of rank 2) and input(3.0).
GraphInputs ==
    << [cls |-> "NumpyR", constant |-> FALSE, rank |-> 2],
       [cls |-> "NumpyR", constant |-> FALSE, rank |-> 0] >>

NoResult == [cls |-> None, constant |-> FALSE, rank |-> NoShape]

\* no test for a Result: it is stored in a PythonR like any other object
input_any(x) ==
    IF x.t = "arr" THEN [err |-> None, r |-> [cls |-> "NumpyR", constant |-> FALSE, rank |-> x.rank]]
    ELSE IF x.t = "num" THEN [err |-> None, r |-> [cls |-> "NumpyR", constant |-> FALSE, rank |-> 0]]
    ELSE [err |-> None, r |-> [cls |-> "PythonR", constant |-> FALSE, rank |-> NoShape]]

\* input(x): the Result made for a raw value; a Result is refused
input(x) ==
    IF x.t = "arr" THEN [err |-> None, r |-> [cls |-> "NumpyR", constant |-> FALSE, rank |-> x.rank]]
    ELSE IF x.t = "num" THEN [err |-> None, r |-> [cls |-> "NumpyR", constant |-> FALSE, rank |-> 0]]
    ELSE IF x.t = "res" THEN [err |-> "TypeError", r |-> NoResult]
    ELSE [err |-> None, r |-> [cls |-> "PythonR", constant |-> FALSE, rank |-> NoShape]]

\* _hashable(x): numbers hash by value, Results by identity
hashable(x) == x.t \in {"num", "res"}

\* x in literals_db: a number is found by value; a Result is never a key
InDb(x, db) == x.t = "num" /\ x.v \in DOMAIN db /\ db[x.v] # 0

\* every call makes a Result of its own
literal_hashable_fresh(x, st) ==
    LET i == input(x)
        r == Len(st.results) + 1
    IN  IF i.err # None THEN [st |-> st, r |-> 0, err |-> i.err]
        ELSE [st |-> [results |-> Append(st.results, [i.r EXCEPT !.constant = TRUE]),
                      db      |-> [st.db EXCEPT ![x.v] = r],
                      iddb    |-> st.iddb],
              r  |-> r, err |-> None]

\* _literal_hashable(x) on the store st = [results, db, iddb]
literal_hashable(x, st) ==
    IF InDb(x, st.db)
    THEN [st |-> st, r |-> st.db[x.v], err |-> None]
    ELSE LET i == input(x)
             r == Len(st.results) + 1
         IN  IF i.err # None THEN [st |-> st, r |-> 0, err |-> i.err]
             ELSE [st |-> [results |-> Append(st.results, [i.r EXCEPT !.constant = TRUE]),
                           db      |-> [st.db EXCEPT ![x.v] = r],
                           iddb    |-> st.iddb],
                   r  |-> r, err |-> None]

\* _literal_unhashable(x)
literal_unhashable(x, st) ==
    IF st.iddb[x.v] # 0
    THEN [st |-> st, r |-> st.iddb[x.v], err |-> None]
    ELSE LET i == input(x)
             r == Len(st.results) + 1
         IN  IF i.err # None THEN [st |-> st, r |-> 0, err |-> i.err]
             ELSE [st |-> [results |-> Append(st.results, [i.r EXCEPT !.constant = TRUE]),
                           db      |-> st.db,
                           iddb    |-> [st.iddb EXCEPT ![x.v] = r]],
                   r  |-> r, err |-> None]

literal(x, st) ==
    IF hashable(x) THEN literal_hashable(x, st) ELSE literal_unhashable(x, st)

\* wrap(x): x is a Result ("res"), an operator ("op") or a raw value
wrap(x, st, os) ==
    IF x.t = "res" /\ st.results[x.v].cls \in {"NumpyR", "PythonR"}
    THEN [st |-> st, r |-> x.v, err |-> None]
    ELSE IF x.t = "op" THEN [st |-> st, r |-> os[x.v].out, err |-> None]
    ELSE literal(x, st)

----------------------------------------------------------------------------
(* Operator classes and the scalar_switch families                         *)

\* Classes made by elemwise.inplace_version() with the default dmap {0: 0}
InplaceClasses ==
    { "add_elemwise_inplace", "add_scalar_inplace", "sub_elemwise_inplace",
      "mul_elemwise_inplace", "scale_inplace", "div_elemwise_inplace",
      "pow_elemwise_inplace", "pow_scalar_r_inplace",
      "neg_inplace", "twice_inplace", "inv_elemwise_inplace", "fill_inplace" }

\* destroy map of a class, as pairs <<output position, input position>>
ClassDmap(cls) == IF cls \in InplaceClasses THEN {<<0, 0>>} ELSE {}

\* elemwise.inplace_version.C.destroy_map: output Result -> the input Result
\* whose storage it reuses, as pairs <<output, input>>
destroy_map(op) == {<<op.out, op.inputs[p[2] + 1]>> : p \in op.dmap}

\* What a callee of scalar_switch does with its two arguments: the helper
\* functions first apply neg or inv_elemwise to one argument (pre, on), then
\* construct the operator of class cls.
Callee(name) ==
    CASE name = "sub_scalar_r"         -> [pre |-> "neg", on |-> 2, cls |-> "add_scalar"]
      [] name = "sub_scalar_l"         -> [pre |-> "neg", on |-> 1, cls |-> "add_scalar"]
      [] name = "sub_scalar_r_inplace" -> [pre |-> "neg", on |-> 2, cls |-> "add_scalar_inplace"]
      [] name = "div_scalar_r"         -> [pre |-> "inv_elemwise", on |-> 2, cls |-> "scale"]
      [] name = "div_scalar_l"         -> [pre |-> "inv_elemwise", on |-> 1, cls |-> "scale"]
      [] name = "div_scalar_r_inplace" -> [pre |-> "inv_elemwise", on |-> 2, cls |-> "scale_inplace"]
      [] OTHER                         -> [pre |-> None, on |-> 0, cls |-> name]

Families ==
    [ add         |-> [normal_f |-> "add_elemwise", scalar_f |-> "add_scalar", scalar_f_reverse |-> "add_scalar"],
      add_inplace |-> [normal_f |-> "add_elemwise_inplace", scalar_f |-> "add_scalar_inplace", scalar_f_reverse |-> None],
      sub         |-> [normal_f |-> "sub_elemwise", scalar_f |-> "sub_scalar_r", scalar_f_reverse |-> "sub_scalar_l"],
      sub_inplace |-> [normal_f |-> "sub_elemwise_inplace", scalar_f |-> "sub_scalar_r_inplace", scalar_f_reverse |-> None],
      mul         |-> [normal_f |-> "mul_elemwise", scalar_f |-> "scale", scalar_f_reverse |-> "scale"],
      mul_inplace |-> [normal_f |-> "mul_elemwise_inplace", scalar_f |-> "scale_inplace", scalar_f_reverse |-> None],
      div         |-> [normal_f |-> "div_elemwise", scalar_f |-> "div_scalar_r", scalar_f_reverse |-> "div_scalar_l"],
      div_inplace |-> [normal_f |-> "div_elemwise_inplace", scalar_f |-> "div_scalar_r_inplace", scalar_f_reverse |-> None],
      pow         |-> [normal_f |-> "pow_elemwise", scalar_f |-> "pow_scalar_r", scalar_f_reverse |-> "pow_scalar_l"],
      pow_inplace |-> [normal_f |-> "pow_elemwise_inplace", scalar_f |-> "pow_scalar_r_inplace", scalar_f_reverse |-> None] ]

FamilyNames == DOMAIN Families

\* omega_op.__new__ / gen_outputs: one operator of class cls over inputs ins
\* (already Results), with one fresh NumpyR output
NewOp(cls, ins, st, os) ==
    LET out == Len(st.results) + 1
    IN  [st |-> [st EXCEPT !.results =
                    Append(@, [cls |-> "NumpyR", constant |-> FALSE, rank |-> st.results[ins[1]].rank])],
         os |-> Append(os, [cls |-> cls, inputs |-> ins, out |-> out, dmap |-> ClassDmap(cls)]),
         r  |-> out]

\* a callee applied to (a, b)
Construct(name, a, b, st, os) ==
    LET c == Callee(name)
    IN  IF c.pre = None
        THEN NewOp(c.cls, <<a, b>>, st, os)
        ELSE LET p == NewOp(c.pre, <<IF c.on = 1 THEN a ELSE b>>, st, os)
             IN  NewOp(c.cls, IF c.on = 1 THEN <<p.r, b>> ELSE <<a, p.r>>, p.st, p.os)

\* "c.constant and not c.data.shape" for a Result record c
\* ("attr": data has no shape, the attribute lookup raises)
ZeroRankTest(c) ==
    IF ~c.constant THEN "no"
    ELSE IF c.rank = NoShape THEN "attr"
    ELSE IF c.rank = 0 THEN "yes" ELSE "no"


\* a dispatcher that tests the left operand before the right one
SwitchDecisionLeftFirst(fam, X, Y, R) ==
    LET ty == ZeroRankTest(R[Y])
        tx == ZeroRankTest(R[X])
    IN  IF tx = "attr" THEN [callee |-> None, args |-> <<>>, err |-> "AttributeError"]
        ELSE IF tx = "yes"
             THEN IF fam.scalar_f_reverse # None
                  THEN [callee |-> fam.scalar_f_reverse, args |-> <<Y, X>>, err |-> None]
                  ELSE [callee |-> None, args |-> <<>>, err |-> "TypeError"]
        ELSE IF ty = "attr" THEN [callee |-> None, args |-> <<>>, err |-> "AttributeError"]
        ELSE IF ty = "yes" THEN [callee |-> fam.scalar_f, args |-> <<X, Y>>, err |-> None]
        ELSE [callee |-> fam.normal_f, args |-> <<X, Y>>, err |-> None]

\* the decision of f(x, y) of scalar_switch, on the wrapped operands X, Y
SwitchDecision(fam, X, Y, R) ==
    LET ty == ZeroRankTest(R[Y])
        tx == ZeroRankTest(R[X])
    IN  IF ty = "attr" THEN [callee |-> None, args |-> <<>>, err |-> "AttributeError"]
        ELSE IF ty = "yes" THEN [callee |-> fam.scalar_f, args |-> <<X, Y>>, err |-> None]
        ELSE IF tx = "attr" THEN [callee |-> None, args |-> <<>>, err |-> "AttributeError"]
        ELSE IF tx = "yes"
             THEN IF fam.scalar_f_reverse # None
                  THEN [callee |-> fam.scalar_f_reverse, args |-> <<Y, X>>, err |-> None]
                  ELSE [callee |-> None, args |-> <<>>, err |-> "TypeError"]
        ELSE [callee |-> fam.normal_f, args |-> <<X, Y>>, err |-> None]

Operands ==
    RawValues
    \cup {[t |-> "res", v |-> i, rank |-> 0] : i \in 1..Len(results)}
    \cup {[t |-> "op",  v |-> k, rank |-> 0] : k \in 1..Len(ops)}

\* f(x, y) for f = scalar_switch(normal_f, scalar_f, scalar_f_reverse)
Call(f, x, y) ==
    /\ ncalls < MaxCalls
    /\ LET st0 == [results |-> results, db |-> literals_db, iddb |-> literals_id_db]
           w1  == wrap(x, st0, ops)
           w2  == wrap(y, w1.st, ops)
           d   == SwitchDecision(Families[f], w1.r, w2.r, w2.st.results)
           c   == IF d.callee = None
                  THEN [st |-> w2.st, os |-> ops, r |-> 0]
                  ELSE Construct(d.callee, d.args[1], d.args[2], w2.st, ops)
       IN  /\ results' = c.st.results
           /\ literals_db' = c.st.db
           /\ literals_id_db' = c.st.iddb
           /\ ops' = c.os
           /\ last' = [f |-> f, X |-> w1.r, Y |-> w2.r, callee |-> d.callee,
                       args |-> d.args, err |-> d.err, nops |-> Len(ops), ret |-> c.r]
    /\ ncalls' = ncalls + 1

NoCall == [f |-> None, X |-> 0, Y |-> 0, callee |-> None, args |-> <<>>,
           err |-> None, nops |-> 0, ret |-> 0]

DInit ==
    /\ results = GraphInputs
    /\ literals_db = [k \in HashKeys |-> 0]
    /\ literals_id_db = [k \in ObjIds |-> 0]
    /\ ops = <<>>
    /\ last = NoCall
    /\ ncalls = 0

DIdle ==
    /\ results = <<>>
    /\ literals_db = <<>>
    /\ literals_id_db = <<>>
    /\ ops = <<>>
    /\ last = NoCall
    /\ ncalls = 0

----------------------------------------------------------------------------
(* omega_op.update_gradient                                                *)

\* Results of the gradient graph: 1, 2 are inputs, 3, 4 are outputs
GradResults == 1..4

\* Gradients are symbolic values that add up; a rule returns them from here
GradValues == {1, 2}

\* Operator instances: their ordered inputs (a Result may be used in several
\* positions) and outputs
GradOps ==
    { [inputs |-> ins, outputs |-> outs] :
        ins \in {<<1>>, <<2>>, <<1, 2>>, <<2, 1>>, <<1, 1>>},
        outs \in {<<3>>, <<3, 4>>} }

\* gof.UNDEFINED: the keyword object a rule returns when the gradient is not
\* defined (ones_like.grad, zeros_like.grad); neither a PythonR nor a sequence
UNDEFINED == "UNDEFINED"

\* What self.grad(...) may return: a sequence of gradients ("seq"), one bare
\* PythonR gradient ("bare"), or UNDEFINED ("undefined")
GradReturns(op) ==
    { [kind |-> "seq", gs |-> gs] :
        gs \in UNION {[1..k -> GradValues] : k \in 0..(Len(op.inputs) + 1)} }
    \cup (IF Len(op.inputs) = 1
          THEN {[kind |-> "bare", gs |-> <<g>>] : g \in GradValues}
          ELSE {})
    \cup {[kind |-> "undefined", gs |-> <<>>]}

\* isinstance(inputgs, gof.PythonR)
isinstance_PythonR(ret) == ret.kind = "bare"

\* grad_d.add(input, inputg): additive accumulation
GradAdd(acc, r, g) == [acc EXCEPT ![r] = @ + g]

\* one contribution per distinct input Result instead of one per position
RECURSIVE AddContributionsOncePerResult(_, _, _, _)
AddContributionsOncePerResult(acc, ins, gs, i) ==
    IF i > Len(ins) \/ i > Len(gs)
    THEN [acc |-> acc, log |-> <<>>]
    ELSE IF \E j \in 1..(i - 1) : ins[j] = ins[i]
    THEN AddContributionsOncePerResult(acc, ins, gs, i + 1)
    ELSE LET rest == AddContributionsOncePerResult(GradAdd(acc, ins[i], gs[i]), ins, gs, i + 1)
         IN  [acc |-> rest.acc, log |-> <<(<<ins[i], gs[i]>>)>> \o rest.log]

\* for input, inputg in zip(self.inputs, inputgs): grad_d.add(input, inputg)
RECURSIVE AddContributions(_, _, _, _)
AddContributions(acc, ins, gs, i) ==
    IF i > Len(ins) \/ i > Len(gs)
    THEN [acc |-> acc, log |-> <<>>]
    ELSE LET rest == AddContributions(GradAdd(acc, ins[i], gs[i]), ins, gs, i + 1)
         IN  [acc |-> rest.acc, log |-> <<(<<ins[i], gs[i]>>)>> \o rest.log]

\* the arguments of self.grad: the inputs, then grad_d[output] of each output
GradArgs(op, acc) ==
    [inputs |-> op.inputs, gouts |-> [k \in 1..Len(op.outputs) |-> acc[op.outputs[k]]]]

\* the zip loop alone: no arity assertion, zip stops at the shorter sequence
update_gradient_unchecked(op, acc, ret) ==
    LET a == AddContributions(acc, op.inputs, ret.gs, 1)
    IN  [acc |-> a.acc, log |-> a.log, err |-> None]

\* omega_op.update_gradient(self, grad_d), the rule returning ret
update_gradient(op, acc, ret) ==
    LET inputgs == ret.gs    \* a bare PythonR of a unary operator becomes [inputgs]
    IN  IF Len(op.inputs) = 1 /\ isinstance_PythonR(ret)
        THEN LET a == AddContributions(acc, op.inputs, inputgs, 1)
             IN  [acc |-> a.acc, log |-> a.log, err |-> None]
        ELSE IF ret.kind = "undefined"
        THEN \* len(UNDEFINED): the keyword object has no length
             [acc |-> acc, log |-> <<>>, err |-> "TypeError"]
        ELSE IF Len(inputgs) # Len(op.inputs)
        THEN [acc |-> acc, log |-> <<>>, err |-> "AssertionError"]
        ELSE LET a == AddContributions(acc, op.inputs, inputgs, 1)
             IN  [acc |-> a.acc, log |-> a.log, err |-> None]

UpdateGradient(op, ret) ==
    /\ gsteps < MaxGradSteps
    /\ LET u == update_gradient(op, grad_d, ret)
       IN  /\ grad_d' = u.acc
           /\ glast' = [op |-> op, args |-> GradArgs(op, grad_d), ret |-> ret,
                        prev |-> grad_d, log |-> u.log, err |-> u.err]
    /\ gsteps' = gsteps + 1

\* the traversal adds the contribution of another consumer
Contribute(r, g) ==
    /\ gsteps < MaxGradSteps
    /\ grad_d' = GradAdd(grad_d, r, g)
    /\ gsteps' = gsteps + 1
    /\ UNCHANGED glast

NoGrad == [op |-> [inputs |-> <<>>, outputs |-> <<>>], args |-> <<>>,
           ret |-> [kind |-> "none", gs |-> <<>>],
           prev |-> <<>>, log |-> <<>>, err |-> None]

GInit ==
    /\ grad_d = [r \in GradResults |-> 0]
    /\ glast = NoGrad
    /\ gsteps = 0

GIdle ==
    /\ grad_d = <<>>
    /\ glast = NoGrad
    /\ gsteps = 0


----------------------------------------------------------------------------
(* blas_code.gemm_xyz: the kernel of dot and gemm, and its execution       *)

DTypes == {"float32", "float64", "int32"}

\* descr->elsize
ElSize(t) == IF t = "float64" THEN 8 ELSE 4

\* PyArray_FLOAT or PyArray_DOUBLE
IsFloatOrDouble(t) == t \in {"float32", "float64"}

\* upcast(dtype, *dtypes): the dtype of the sum of zeros of each dtype
upcast2(t1, t2) ==
    IF t1 = t2 THEN t1
    ELSE IF "float64" \in {t1, t2} THEN "float64"
    ELSE "float64"   \* int32 + float32

\* Arrays as the kernel sees them: rank, dtype, dimensions, strides in bytes
Shapes == {<<2>>, <<2, 2>>, <<2, 3>>}

StridesOf(shape) ==
    IF Len(shape) = 1 THEN {<<8>>}
    ELSE {<<16, 8>>, <<8, 16>>, <<8, 4>>, <<-16, 8>>}

Arrays ==
    UNION { { [nd |-> Len(sh), type |-> t, dims |-> sh, strides |-> st] :
                t \in DTypes, st \in StridesOf(sh) } : sh \in Shapes }

\* NumpyR.alloc: numpy.ndarray(shape, dtype), a fresh C-contiguous array
FreshArray(shape, t) ==
    [nd |-> 2, type |-> t, dims |-> shape,
     strides |-> <<shape[2] * ElSize(t), ElSize(t)>>]

\* dot(x, y): dot.specs accepts x, y of rank 2 with x.shape[1] = y.shape[0],
\* and z is allocated from the spec it returns
DotInputs ==
    UNION { { [op |-> "dot", x |-> x, y |-> y,
               z |-> FreshArray(<<x.dims[1], y.dims[2]>>, upcast2(x.type, y.type)),
               a |-> "float64", b |-> "float64"] :
                y \in {v \in Arrays : v.nd = 2 /\ x.dims[2] = v.dims[1]} } :
            x \in {v \in Arrays : v.nd = 2} }

\* gemm(z, a, x, y, b): every array is the caller's
GemmInputs ==
    { [op |-> "gemm", x |-> x, y |-> y, z |-> z, a |-> ab[1], b |-> ab[2]] :
        x \in Arrays, y \in Arrays, z \in Arrays,
        ab \in {<<"float64", "float64">>, <<"int32", "float64">>, <<"float64", "int32">>} }

NotImplementedError == "NotImplementedError"

\* _dot_execute_fallback
FallbackExit == [status |-> -1, err |-> NotImplementedError]

\* _dot_execute_fail, reached with error_string set or NULL
FailExit(error_string_is_null) ==
    [status |-> -1, err |-> IF error_string_is_null THEN "ValueError" ELSE None]

\* the stride structure of one array: 0 (unit second stride), 1 (unit first
\* stride), 2 (no unit stride)
UnitCode(s, type_size) ==
    IF s[2] = type_size THEN 0 ELSE IF s[1] = type_size THEN 1 ELSE 2

BadStride(s, type_size) ==
    \/ s[1] < 1 \/ s[2] < 1
    \/ s[1] % type_size # 0 \/ s[2] % type_size # 0

\* the code generated by gemm_xyz(check_ab, a_init, b_init) on x, y, z;
\* check_ab is '' for dot and tests the dtypes of a and b for gemm
gemm_xyz(k) ==
    LET x == k.x  y == k.y  z == k.z
        type_size == ElSize(x.type)
    IN  IF x.nd # 2 \/ y.nd # 2 \/ z.nd # 2 THEN FallbackExit
        ELSE IF k.op = "gemm" /\ (~IsFloatOrDouble(k.a) \/ ~IsFloatOrDouble(k.b))
        THEN FallbackExit
        ELSE IF ~IsFloatOrDouble(x.type) \/ ~IsFloatOrDouble(y.type) THEN FallbackExit
        ELSE IF x.type # y.type \/ x.type # z.type THEN FallbackExit
        ELSE IF x.dims[1] # z.dims[1] \/ x.dims[2] # y.dims[1] \/ y.dims[2] # z.dims[2]
        THEN FailExit(FALSE)
        ELSE IF BadStride(x.strides, type_size) \/ BadStride(y.strides, type_size)
                \/ BadStride(z.strides, type_size)
        THEN FallbackExit
        ELSE IF 2 \in { UnitCode(x.strides, type_size), UnitCode(y.strides, type_size),
                        UnitCode(z.strides, type_size) }
        THEN FallbackExit
        ELSE [status |-> 0, err |-> None]

\* cutils.run_cthunk: a non-zero status is raised to the caller, as the error
\* the kernel set, or as a SystemError when it set none
run_cthunk(exit) ==
    IF exit.status = 0 THEN None
    ELSE IF exit.err # None THEN exit.err ELSE "SystemError"

\* omega_op.c_perform: thunk = self.c_thunk(); cutils.run_cthunk(thunk)
c_perform(k) == run_cthunk(gemm_xyz(k))

\* one execution of the operator's compiled kernel: c_perform has no
\* handler, so whatever run_cthunk raises is what its caller sees
perform(k) ==
    [exit |-> gemm_xyz(k), path |-> "thunk", seen |-> c_perform(k)]

NotRun == [exit |-> [status |-> 0, err |-> None], path |-> None, seen |-> None]

Execute ==
    /\ kres = NotRun
    /\ kres' = perform(kin)
    /\ UNCHANGED kin

KInit ==
    /\ kin \in DotInputs \cup GemmInputs
    /\ kres = NotRun

KIdle ==
    /\ kin = <<>>
    /\ kres = NotRun

----------------------------------------------------------------------------
(* omega_op.c_thunk_factory: compilation into the compile directory        *)

Procs == {1, 2}

\* operator instances: 1 and 2 are of one class with the same input specs,
\* 3 is another operator
FactoryOps == {1, 2, 3}

\* self.c_code(): the generated source depends on the class and the specs
c_code(op) == IF op = 3 THEN "src_b" ELSE "src_a"

\* md5.md5(code).hexdigest(): equal sources have equal digests
md5(code) == IF code = "src_a" THEN "0cc1" ELSE "92eb"

\* a module named after the operator instance instead of its source
module_name_of_instance(op) == IF op = 1 THEN "op_1" ELSE IF op = 2 THEN "op_2" ELSE "op_3"

\* module_name = md5.md5(code).hexdigest()
module_name(op) == md5(c_code(op))

\* os.getenv in each process: the first has neither variable set, the second
\* names another BLAS
Getenv(p, var) ==
    IF p = 1 THEN None
    ELSE IF var = "OMEGA_CBLAS_H" THEN "cblas.h" ELSE "-lblas"

\* _blas_headers()
blas_headers(p) ==
    IF Getenv(p, "OMEGA_CBLAS_H") = None THEN <<>> ELSE <<Getenv(p, "OMEGA_CBLAS_H")>>

\* _blas_libs()
blas_libs(p) ==
    IF Getenv(p, "OMEGA_BLAS_LDFLAGS") # None
    THEN <<Getenv(p, "OMEGA_BLAS_LDFLAGS")>> ELSE <<"mkl", "m">>

\* operators 1 and 2 are dot instances, 3 keeps the defaults of omega_op
BlasOps == {1, 2}

\* self.c_headers() and self.c_libs()
c_headers(p, op) == IF op \in BlasOps THEN blas_headers(p) ELSE <<>>
c_libs(p, op) == IF op \in BlasOps THEN blas_libs(p) ELSE <<>>

\* what add_header and add_library give to the build
Customize(p, op) == [headers |-> c_headers(p, op), libs |-> c_libs(p, op)]

NoCustomize == [headers |-> <<>>, libs |-> <<>>]

Idle == [pc |-> "idle", op |-> 0, name |-> None, compiled |-> FALSE, customize |-> NoCustomize]

\* c_thunk_factory up to mod.compile(location = _compile_dir()): weave
\* writes the source and runs the native compiler unless the extension file
\* exists in the directory and is not older than the source
Begin(p, op) ==
    LET name == module_name(op)
    IN  /\ cur[p].pc = "idle"
        /\ Len(history[p]) < MaxFactoryCalls
        /\ cur' = [cur EXCEPT ![p] =
                     [pc |-> IF name \in DOMAIN cache THEN "import" ELSE "compiling",
                      op |-> op, name |-> name,
                      compiled |-> name \notin DOMAIN cache,
                      customize |-> Customize(p, op)]]
        /\ UNCHANGED <<cache, imported, history>>

\* the linker creates the extension file in the compile directory
StartLink(p) ==
    /\ cur[p].pc = "compiling"
    /\ cache' = [n \in DOMAIN cache \cup {cur[p].name} |->
                   IF n = cur[p].name THEN "partial" ELSE cache[n]]
    /\ cur' = [cur EXCEPT ![p].pc = "linking"]
    /\ UNCHANGED <<imported, history>>

\* the linker has written the whole file, unless another process has started
\* to write the same file over it
FinishLink(p) ==
    /\ cur[p].pc = "linking"
    /\ cache' = [cache EXCEPT ![cur[p].name] =
                   IF \E q \in Procs \ {p} : cur[q].pc = "linking" /\ cur[q].name = cur[p].name
                   THEN "partial" ELSE "complete"]
    /\ cur' = [cur EXCEPT ![p].pc = "import"]
    /\ UNCHANGED <<imported, history>>

\* module = __import__(module_name, ...): the module of this process if it
\* was imported before, the file in the compile directory otherwise
Import(p) ==
    LET c    == cur[p]
        seen == IF c.name \in imported[p] THEN "module" ELSE cache[c.name]
    IN  /\ c.pc = "import"
        /\ history' = [history EXCEPT ![p] =
                         Append(@, [op |-> c.op, name |-> c.name,
                                    compiled |-> c.compiled, seen |-> seen,
                                    customize |-> c.customize])]
        /\ imported' = [imported EXCEPT ![p] =
                          IF seen = "complete" THEN @ \cup {c.name} ELSE @]
        /\ cur' = [cur EXCEPT ![p] = Idle]
        /\ UNCHANGED cache

CInit ==
    /\ cache = <<>>
    /\ cur = [p \in Procs |-> Idle]
    /\ imported = [p \in Procs |-> {}]
    /\ history = [p \in Procs |-> <<>>]

CIdle ==
    /\ cache = <<>>
    /\ cur = <<>>
    /\ imported = <<>>
    /\ history = <<>>

----------------------------------------------------------------------------
(* elemwise: code generation and the two loops of elemwise_wrap            *)

\* the elementwise classes: the parameter names of c_foreach
\* (variable_names), those ending in _i (loop_variables), and the body
ElemClass(cls) ==
    CASE cls \in {"add_elemwise", "add_elemwise_inplace"} ->
           [inames |-> <<"x", "y">>, onames |-> <<"z">>,
            linames |-> <<"x", "y">>, lonames |-> <<"z">>, body |-> "z_i = x_i + y_i;"]
      [] cls \in {"sub_elemwise", "sub_elemwise_inplace"} ->
           [inames |-> <<"x", "y">>, onames |-> <<"z">>,
            linames |-> <<"x", "y">>, lonames |-> <<"z">>, body |-> "z_i = x_i - y_i;"]
      [] cls \in {"add_scalar", "add_scalar_inplace"} ->
           [inames |-> <<"x", "_a">>, onames |-> <<"z">>,
            linames |-> <<"x">>, lonames |-> <<"z">>, body |-> "z_i = x_i + a;"]
      [] cls \in {"neg", "neg_inplace"} ->
           [inames |-> <<"x">>, onames |-> <<"z">>,
            linames |-> <<"x">>, lonames |-> <<"z">>, body |-> "z_i = -x_i;"]
      [] cls = "array_copy" ->
           [inames |-> <<"x">>, onames |-> <<"z">>,
            linames |-> <<"x">>, lonames |-> <<"z">>, body |-> "z_i = x_i;"]
      [] cls \in {"fill", "fill_inplace"} ->
           [inames |-> <<"model", "value">>, onames |-> <<"z">>,
            linames |-> <<"model">>, lonames |-> <<"z">>, body |-> "z_i = value0;"]
      [] cls = "sum" ->
           [inames |-> <<"x">>, onames |-> <<"sum">>,
            linames |-> <<"x">>, lonames |-> <<>>, body |-> "sump[0] += x_i;"]

ElemClasses ==
    { "add_elemwise", "add_elemwise_inplace", "sub_elemwise", "sub_elemwise_inplace",
      "add_scalar", "add_scalar_inplace", "neg", "neg_inplace", "array_copy", "sum" }

InSeq(x, seq) == \E i \in 1..Len(seq) : seq[i] = x

\* list.index
Index(seq, x) == CHOOSE i \in 1..Len(seq) : seq[i] = x /\ \A j \in 1..(i - 1) : seq[j] # x

\* the loop arrays have one shape
Shape == <<2, 2>>

PyArray_SIZE == Shape[1] * Shape[2]

\* strides, in elements, of a row-major array, of a column-major array and of
\* a view that is neither
CStrides == <<Shape[2], 1>>
FStrides == <<1, Shape[1]>>
ViewStrides == <<Shape[2] + 1, 1>>

LoopStrides == {CStrides, FStrides, ViewStrides}

\* the values of the four elements, in the order of their addresses
LoopData == {<<8, 1, -8, 1>>, <<1, 2, 3, 4>>}

\* the memory from the data pointer of an array with these strides
BufferFor(strides, vals) ==
    IF strides = ViewStrides THEN <<vals[1], vals[2], 0, vals[3], vals[4]>> ELSE vals

LoopDTypes == {"int", "float"}

\* the inputs of an operator, as Results: 1 and 2 are arrays, 3 is a scalar
InputsFor(cls) ==
    IF ElemClass(cls).inames = <<"x", "y">> THEN {<<1, 2>>, <<1, 1>>}
    ELSE IF ElemClass(cls).inames = <<"x", "_a">> THEN {<<1, 3>>}
    ELSE {<<1>>}

\* the Result of the output
Out == 9

\* elemwise.alloc: an output named in the destroy map takes the data of its
\* input (output.set_value(input.data)), any other output is allocated from
\* its spec by NumpyR.alloc
alloc(op, arr) ==
    IF \E d \in destroy_map(op) : d[1] = op.out
    THEN arr[(CHOOSE d \in destroy_map(op) : d[1] = op.out)[2]]
    ELSE [buf |-> "b9", nd |-> IF ElemClass(op.cls).lonames = <<>> THEN 0 ELSE 2,
          strides |-> CStrides, behaved |-> TRUE]

\* an operator instance with its arrays and the memory they live in; behaved
\* tells whether an array is aligned, writeable and in native byte order (the
\* first input may be an array of the caller that is not)
ElemOp(cls, inputs, dtype, s1, d1, s2, d2, b1) ==
    LET op  == [cls |-> cls, inputs |-> inputs, out |-> Out, dmap |-> ClassDmap(cls)]
        arr == [r \in {1, 2, 3} |->
                  IF r = 1 THEN [buf |-> "b1", nd |-> 2, strides |-> s1, behaved |-> b1]
                  ELSE IF r = 2 THEN [buf |-> "b2", nd |-> 2, strides |-> s2, behaved |-> TRUE]
                  ELSE [buf |-> "b3", nd |-> 0, strides |-> CStrides, behaved |-> TRUE]]
    IN  [cls |-> cls, inputs |-> inputs, out |-> Out, dmap |-> ClassDmap(cls),
         dtype |-> dtype,
         arr |-> [r \in {1, 2, 3, Out} |-> IF r = Out THEN alloc(op, arr) ELSE arr[r]],
         heap |-> [b1 |-> BufferFor(s1, d1), b2 |-> BufferFor(s2, d2),
                   b3 |-> <<1>>, b9 |-> <<0, 0, 0, 0>>]]

ElemOps ==
    UNION { UNION { { ElemOp(cls, inputs, dtype, s1, d1, s2, d2, b1) :
                        dtype \in LoopDTypes, s1 \in LoopStrides, d1 \in LoopData,
                        b1 \in BOOLEAN,
                        s2 \in IF InSeq(2, inputs) THEN LoopStrides ELSE {CStrides},
                        d2 \in IF InSeq(2, inputs) THEN LoopData ELSE {<<1, 2, 3, 4>>} } :
                    inputs \in InputsFor(cls) } : cls \in ElemClasses }

\* elemwise.c_code: the aliases of an in-place operator, as pairs
\* <<input name, output name>>
Aliases(op) ==
    LET c == ElemClass(op.cls)
    IN  { <<c.inames[Index(op.inputs, d[2])], c.onames[o]>> :
            d \in {e \in destroy_map(op) : e[1] = op.out},
            o \in {n \in 1..Len(c.onames) : InSeq(c.onames[n], c.lonames)} }

\* elemwise.c_code and elemwise_loopcode: the read loop variables are the loop
\* inputs that are not aliased, the writable ones the loop outputs; each of
\* them gets a cursor (init, next, cleanup) in both loops
c_code_elemwise(op) ==
    LET c       == ElemClass(op.cls)
        aliases == Aliases(op)
        aliased(name) == \E a \in aliases : a[1] = name
        reads   == SelectSeq(c.linames, LAMBDA name : ~aliased(name))
    IN  [loop_vars |-> reads, writable_loop_vars |-> c.lonames,
         aliases |-> aliases, cursors |-> reads \o c.lonames]

\* the Result a name of c_foreach is bound to (cgen: inames + onames,
\* self.inputs + self.outputs)
NameResult(op, name) ==
    LET c == ElemClass(op.cls)
    IN  IF InSeq(name, c.inames) THEN op.inputs[Index(c.inames, name)] ELSE op.out

NameArray(op, name) == op.arr[NameResult(op, name)]

\* the layout alone
PyArray_ISCONTIGUOUS(a) == a.strides = CStrides

\* PyArray_ISCARRAY: C-contiguous, aligned, writeable, native byte order
PyArray_ISCARRAY(a) == a.strides = CStrides /\ a.behaved

\* PyArray_ISFARRAY: Fortran-contiguous, aligned, writeable, native byte order
PyArray_ISFARRAY(a) == a.strides = FStrides /\ a.behaved

\* elemwise_wrap: the contiguity check over all loop variables
ChosenPath(op, code) ==
    LET all_c_contiguous == \A i \in 1..Len(code.cursors) :
                               PyArray_ISCARRAY(NameArray(op, code.cursors[i]))
        all_f_contiguous == \A i \in 1..Len(code.cursors) :
                               PyArray_ISFARRAY(NameArray(op, code.cursors[i]))
    IN  IF all_c_contiguous \/ all_f_contiguous THEN "contiguous" ELSE "general"

\* the element a cursor is at in iteration k (from 0): the general cursor
\* (PyArray_ITER_NEXT) walks the indices in row-major order through the
\* strides, the contiguous one (iter++) walks the addresses
CursorOffset(path, a, k) ==
    IF path = "contiguous" THEN k
    ELSE (k \div Shape[2]) * a.strides[1] + (k % Shape[2]) * a.strides[2]

\* floating point with a significand of three bits, rounded to nearest, ties
\* to even
RoundTo(v, step) ==
    LET q == v \div step
        r == v % step
    IN  IF 2 * r < step THEN q * step
        ELSE IF 2 * r > step THEN (q + 1) * step
        ELSE IF q % 2 = 0 THEN q * step ELSE (q + 1) * step

Abs(v) == IF v < 0 THEN -v ELSE v

Round(v) ==
    IF Abs(v) < 8 THEN v
    ELSE IF Abs(v) < 16 THEN RoundTo(v, 2)
    ELSE IF Abs(v) < 32 THEN RoundTo(v, 4)
    ELSE RoundTo(v, 8)

\* a value as its dtype stores it
Store(dtype, v) == IF dtype = "float" THEN Round(v) ELSE v

\* the loop of elemwise_loopcode from iteration k on: idefs and aliasdefs read
\* the elements, odefs bind references to them, then the body runs
RECURSIVE Loop(_, _, _, _, _)
Loop(op, code, path, k, heap) ==
    IF k = PyArray_SIZE THEN heap
    ELSE
      LET at(name)   == CursorOffset(path, NameArray(op, name), k) + 1
          cell(name) == heap[NameArray(op, name).buf][at(name)]
          val(name)  == IF InSeq(name, code.cursors) THEN cell(name)
                        ELSE cell((CHOOSE a \in code.aliases : a[1] = name)[2])
          a          == heap[NameArray(op, "_a").buf][1]
          body       == ElemClass(op.cls).body
          next ==
            IF body = "sump[0] += x_i;"
            THEN [heap EXCEPT ![op.arr[op.out].buf][1] = Store(op.dtype, @ + val("x"))]
            ELSE [heap EXCEPT ![NameArray(op, "z").buf][at("z")] =
                    Store(op.dtype,
                          CASE body = "z_i = x_i + y_i;" -> val("x") + val("y")
                            [] body = "z_i = x_i - y_i;" -> val("x") - val("y")
                            [] body = "z_i = x_i + a;"   -> val("x") + a
                            [] body = "z_i = -x_i;"      -> 0 - val("x")
                            [] body = "z_i = x_i;"       -> val("x"))]
      IN  Loop(op, code, path, k + 1, next)

\* the code of elemwise_wrap on one path: beforeloop (sum.c_init clears the
\* accumulator), the loop, afterloop
RunPath(op, code, path) ==
    LET before == IF ElemClass(op.cls).body = "sump[0] += x_i;"
                  THEN [op.heap EXCEPT ![op.arr[op.out].buf][1] = 0]
                  ELSE op.heap
    IN  Loop(op, code, path, 0, before)

\* the output as an array of values: its elements in row-major order
OutputValues(op, heap) ==
    LET o == op.arr[op.out]
    IN  IF o.nd = 0 THEN <<heap[o.buf][1]>>
        ELSE [k \in 1..PyArray_SIZE |-> heap[o.buf][CursorOffset("general", o, k - 1) + 1]]

NoCode == [loop_vars |-> <<>>, writable_loop_vars |-> <<>>, aliases |-> {}, cursors |-> <<>>]
NoRun == [path |-> None, heap |-> <<>>]

\* the code is generated for the operator
CCode ==
    /\ lcode = NoCode
    /\ lcode' = c_code_elemwise(lop)
    /\ UNCHANGED <<lop, lrun>>

\* the thunk runs: the contiguity check selects the loop
RunThunk ==
    /\ lcode # NoCode
    /\ lrun = NoRun
    /\ lrun' = [path |-> ChosenPath(lop, lcode),
                heap |-> RunPath(lop, lcode, ChosenPath(lop, lcode))]
    /\ UNCHANGED <<lop, lcode>>

LInit ==
    /\ lop \in ElemOps
    /\ lcode = NoCode
    /\ lrun = NoRun

LIdle ==
    /\ lop = <<>>
    /\ lcode = NoCode
    /\ lrun = NoRun

----------------------------------------------------------------------------
(* elemwise.inplace_version: alloc and the interpreted implementation      *)

UNCOMPUTED == 0

\* the in-place classes and how they get their implementation: set_impl
\* gives the class an in-place impl of its own, the others inherit the impl of
\* the base class
OwnImplClasses == {"add_elemwise_inplace", "add_scalar_inplace", "neg_inplace"}
BaseImplClasses == {"twice_inplace", "inv_elemwise_inplace", "fill_inplace"}

ImplArity(cls) ==
    IF cls \in {"add_elemwise_inplace", "add_scalar_inplace", "fill_inplace"} THEN 2 ELSE 1

Ranks == {0, 2}

\* What an array holds: what it held when the operator was built, or the
\* value of a function of such contents
Initial(k) == [f |-> "initial", id |-> k, args |-> <<>>]
Apply(f, args) == [f |-> f, id |-> 0, args |-> args]

\* the impl of the base class of an in-place class, and the impl set_impl
\* gave the class
BaseOf(cls) ==
    CASE cls = "twice_inplace" -> "twice"
      [] cls = "inv_elemwise_inplace" -> "inv_elemwise"
      [] cls = "fill_inplace" -> "fill"
      [] cls \in {"add_elemwise_inplace", "add_scalar_inplace"} -> "add"
      [] cls = "neg_inplace" -> "neg"
OwnOf(cls) ==
    CASE cls \in {"add_elemwise_inplace", "add_scalar_inplace"} -> "__iadd__"
      [] cls = "neg_inplace" -> "__imul__"

\* the contents of the data of the inputs
InputValues(op, data, objs) == [k \in 1..Len(op.inputs) |-> objs[data[op.inputs[k]]].val]

\* numpy.asarray(value): an ndarray is returned as it is, any other value
\* is copied into a new array
asarray(objs, value) ==
    IF objs[value].kind = "ndarray" THEN [objs |-> objs, ret |-> value]
    ELSE [objs |-> Append(objs, [buf |-> Len(objs) + 1, rank |-> objs[value].rank,
                                 kind |-> "ndarray", val |-> objs[value].val]),
          ret |-> Len(objs) + 1]

\* NumpyR.set_value
set_value(data, objs, r, value) ==
    IF value = UNCOMPUTED THEN [data |-> [data EXCEPT ![r] = UNCOMPUTED], objs |-> objs]
    ELSE LET v == asarray(objs, value)
         IN  [data |-> [data EXCEPT ![r] = v.ret], objs |-> v.objs]

\* elemwise.alloc(except_list): every output of the destroy map that is not
\* in except_list takes the data of its input
IAlloc ==
    /\ ~idone.alloc
    /\ LET d == CHOOSE e \in destroy_map(iop) : e[1] = iop.out
           v == IF iop.out \in iop.except_list THEN [data |-> idata, objs |-> iobjs]
                ELSE set_value(idata, iobjs, iop.out, idata[d[2]])
       IN  idata' = v.data /\ iobjs' = v.objs
    /\ idone' = [idone EXCEPT !.alloc = TRUE]
    /\ UNCHANGED iop

\* the impl given by set_impl, applied to the data of the inputs: the object
\* it returns (the in-place operators of ndarray return their first operand),
\* or the error of assert_same_shapes / tensor_scalar_impl
OwnImpl(op, data, objs) ==
    LET x == data[op.inputs[1]]
    IN  IF op.cls = "add_elemwise_inplace"
             /\ objs[data[op.inputs[2]]].rank # objs[x].rank
        THEN [err |-> "ValueError", ret |-> UNCOMPUTED, objs |-> objs]
        ELSE IF op.cls = "add_scalar_inplace" /\ objs[data[op.inputs[2]]].rank # 0
        THEN [err |-> "ValueError", ret |-> UNCOMPUTED, objs |-> objs]
        ELSE [err |-> None, ret |-> x,
              objs |-> [objs EXCEPT ![x].val = Apply(OwnOf(op.cls), InputValues(op, data, objs))]]

\* the impl of the base class returns a new value: an array, or a numpy
\* scalar when the operands have rank 0
BaseImpl(op, data, objs) ==
    LET new  == Len(objs) + 1
        rank == objs[data[op.inputs[1]]].rank
    IN  [err |-> None, ret |-> new,
         objs |-> Append(objs, [buf |-> new, rank |-> rank,
                                kind |-> IF rank = 0 THEN "scalar" ELSE "ndarray",
                                val |-> Apply(BaseOf(op.cls), InputValues(op, data, objs))])]

\* the default of C._impl without its last step: the copy is returned
CopyBackOnly(op, data, objs) ==
    LET res == BaseImpl(op, data, objs)
        a   == data[op.inputs[(CHOOSE p \in op.dmap : p[1] = 0)[2] + 1]]
    IN  IF objs[a].rank = 0
        THEN [err |-> "IndexError", ret |-> UNCOMPUTED, objs |-> res.objs]
        ELSE res

\* the default of C._impl: a = self.inputs[input].data; a[:] = res[output];
\* res[output] = a
CopyBack(op, data, objs) ==
    LET res == BaseImpl(op, data, objs)
        a   == data[op.inputs[(CHOOSE p \in op.dmap : p[1] = 0)[2] + 1]]
    IN  IF objs[a].rank = 0
        THEN [err |-> "IndexError", ret |-> UNCOMPUTED, objs |-> res.objs]
        ELSE [err |-> None, ret |-> a,
              objs |-> [res.objs EXCEPT ![a].val = res.objs[res.ret].val]]

\* C._impl
inplace_impl(op, data, objs) ==
    IF op.cls \in OwnImplClasses THEN OwnImpl(op, data, objs)
    ELSE CopyBack(op, data, objs)

\* the interpreted execution: _impl, and what it returns becomes the data of
\* the output
IPerform ==
    /\ idone.impl = "no"
    /\ LET r == inplace_impl(iop, idata, iobjs)
           v == IF r.err = None THEN set_value(idata, r.objs, iop.out, r.ret)
                ELSE [data |-> idata, objs |-> r.objs]
       IN  /\ iobjs' = v.objs
           /\ idata' = v.data
           /\ idone' = [idone EXCEPT !.impl = IF r.err = None THEN "ok" ELSE r.err]
    /\ UNCHANGED iop

\* an in-place operator on computed inputs: Results 1 and 2 hold the arrays 1
\* and 2, the output is not computed yet or holds an array of the caller
IInit ==
    /\ \E cls \in OwnImplClasses \cup BaseImplClasses, same \in BOOLEAN, skip \in BOOLEAN :
          iop = [cls |-> cls,
                 inputs |-> IF ImplArity(cls) = 1 THEN <<1>>
                            ELSE IF same THEN <<1, 1>> ELSE <<1, 2>>,
                 out |-> Out, dmap |-> ClassDmap(cls),
                 except_list |-> IF skip THEN {Out} ELSE {}]
    /\ \E r1 \in Ranks, r2 \in Ranks, r3 \in Ranks :
          iobjs = <<[buf |-> 1, rank |-> r1, kind |-> "ndarray", val |-> Initial(1)],
                    [buf |-> 2, rank |-> r2, kind |-> "ndarray", val |-> Initial(2)],
                    [buf |-> 3, rank |-> r3, kind |-> "ndarray", val |-> Initial(3)]>>
    /\ \E o \in {UNCOMPUTED, 3} : idata = [r \in {1, 2, Out} |-> IF r = Out THEN o ELSE r]
    /\ idone = [alloc |-> FALSE, impl |-> "no"]

IIdle ==
    /\ iop = <<>>
    /\ idata = <<>>
    /\ iobjs = <<>>
    /\ idone = <<>>

----------------------------------------------------------------------------
(* elemwise._specs: the default inference of the output specs              *)

\* A spec is (container kind, dtype, shape), written <<kind, dtype, shape>>.
\* The spec of a Result that was never specified is None, written <<"None">>;
\* () is the empty tuple.
NoSpec == <<"None">>
EmptySpec == <<>>

\* the truth value of input.spec
IsTrue(spec) == spec # NoSpec /\ spec # EmptySpec

\* Classes written on elemwise by a user, next to those of the module: two
\* loop outputs, its in-place variant inplace_version({1: 1}), and a class
\* whose output is not a loop variable; none has a specs rule
UserClass(cls) ==
    CASE cls \in {"pair", "pair_inplace{1: 1}"} ->
           [inames |-> <<"x", "y">>, onames |-> <<"z", "w">>,
            linames |-> <<"x", "y">>, lonames |-> <<"z", "w">>]
      [] cls = "reduce" ->
           [inames |-> <<"x">>, onames |-> <<"acc">>,
            linames |-> <<"x">>, lonames |-> <<>>]

UserClasses == {"pair", "pair_inplace{1: 1}", "reduce"}

\* the classes of the module that leave specs to the default inference
DefaultSpecsClasses ==
    {"add_elemwise", "add_elemwise_inplace", "add_scalar", "fill", "neg"}

\* variable_names() and loop_variables() of a class
Names(cls) == IF cls \in UserClasses THEN UserClass(cls) ELSE ElemClass(cls)

\* the dmap given to inplace_version, as pairs <<output position, input position>>
InferDmap(cls) ==
    IF cls = "pair_inplace{1: 1}" THEN {<<1, 1>>} ELSE ClassDmap(cls)

SpecShapes == {<<2>>, <<2, 2>>}

\* an input Result: whether it is a NumpyR, and its spec
InputResults ==
    { [numpy |-> b, spec |-> sp] :
        b \in BOOLEAN,
        sp \in {NoSpec, EmptySpec} }
    \cup { [numpy |-> TRUE, spec |-> <<"ndarray", t, sh>>] : t \in DTypes, sh \in SpecShapes }
    \cup { [numpy |-> FALSE, spec |-> <<"object", t, sh>>] : t \in DTypes, sh \in SpecShapes }

InferOps ==
    UNION { { [cls |-> cls, inputs |-> ins, nout |-> Len(Names(cls).onames)] :
                ins \in [1..Len(Names(cls).inames) -> InputResults] } :
            cls \in DefaultSpecsClasses \cup UserClasses }

\* for oname in onames: if oname not in lonames: raise
OutputOutsideLoop(op) ==
    LET c == Names(op.cls)
    IN  \E k \in 1..Len(c.onames) : ~InSeq(c.onames[k], c.lonames)

\* the loop inputs whose spec is true; shape is the spec[2] of the last one
ShapeSources(op) ==
    LET c == Names(op.cls)
    IN  {k \in 1..Len(op.inputs) : InSeq(c.inames[k], c.linames) /\ IsTrue(op.inputs[k].spec)}

Last(S) == CHOOSE k \in S : \A j \in S : j <= k
First(S) == CHOOSE k \in S : \A j \in S : k <= j

\* upcast(dtype, *dtypes) over a non-empty sequence of dtypes
RECURSIVE upcast(_)
upcast(dtypes) ==
    IF Len(dtypes) = 1 THEN dtypes[1]
    ELSE upcast(<<upcast2(dtypes[1], dtypes[2])>> \o SubSeq(dtypes, 3, Len(dtypes)))

NumpyInputs(op) == {k \in 1..Len(op.inputs) : op.inputs[k].numpy}

\* the promotion over the NumpyR inputs that have a spec, skipping the others
InferDtypeOfSpecified(op) ==
    LET N == {k \in NumpyInputs(op) : IsTrue(op.inputs[k].spec)}
    IN  IF N = {}
        THEN [err |-> "TypeError", dtype |-> None]
        ELSE [err |-> None,
              dtype |-> upcast(SelectSeq([k \in 1..Len(op.inputs) |->
                                             IF k \in N THEN op.inputs[k].spec[2] ELSE None],
                                         LAMBDA t : t # None))]

\* dtype = upcast(*[input.spec[1] for ... if isinstance(input, NumpyR)]):
\* None[1] raises TypeError, ()[1] raises IndexError, which becomes Exception;
\* upcast() without an argument raises TypeError
InferDtype(op) ==
    LET N   == NumpyInputs(op)
        bad == {k \in N : ~IsTrue(op.inputs[k].spec)}
    IN  IF bad # {}
        THEN [err |-> IF op.inputs[First(bad)].spec = NoSpec THEN "TypeError" ELSE "Exception",
              dtype |-> None]
        ELSE IF N = {}
        THEN [err |-> "TypeError", dtype |-> None]
        ELSE [err |-> None,
              dtype |-> upcast(SelectSeq([k \in 1..Len(op.inputs) |->
                                             IF k \in N THEN op.inputs[k].spec[2] ELSE None],
                                         LAMBDA t : t # None))]

\* the aliased outputs get the promoted spec like the others
no_inplace_inputs(op, k) == {}

\* dmap.get(output, []) for output k (positions from 1)
inplace_inputs(op, k) ==
    {p[2] + 1 : p \in {q \in InferDmap(op.cls) : q[1] + 1 = k}}

NoInference == [err |-> None, ret |-> <<>>]

\* elemwise._specs(self) when self.specs raises NotImplementedError
_specs(op) ==
    IF OutputOutsideLoop(op)
    THEN [err |-> "Exception", ret |-> <<>>]
    ELSE IF ShapeSources(op) = {}
    THEN [err |-> "Exception", ret |-> <<>>]
    ELSE LET shape == op.inputs[Last(ShapeSources(op))].spec[3]
             d     == InferDtype(op)
         IN  IF d.err # None
             THEN [err |-> d.err, ret |-> <<>>]
             ELSE LET res == [k \in 1..op.nout |->
                                IF inplace_inputs(op, k) # {}
                                THEN op.inputs[First(inplace_inputs(op, k))].spec
                                ELSE <<"ndarray", d.dtype, shape>>]
                  IN  [err |-> None, ret |-> IF op.nout = 1 THEN res[1] ELSE res]

\* the spec _specs gave to output k
ReturnedSpec(op, ret, k) == IF op.nout = 1 THEN ret ELSE ret[k]

\* an output before refresh: no spec, no data
Unallocated == [spec |-> NoSpec, data |-> "UNCOMPUTED"]

\* self.refresh() on success: every output takes its spec; elemwise.alloc gives
\* an aliased output the data of its input and the others a new ndarray
Refreshed(op, ret) ==
    [k \in 1..op.nout |->
        [spec |-> ReturnedSpec(op, ret, k),
         data |-> IF inplace_inputs(op, k) # {} THEN "input" ELSE "new"]]

\* c_thunk_factory: refresh, then code generation, compilation and import
SThunkFactory ==
    /\ sstage = "new"
    /\ LET r == _specs(sop)
       IN  /\ sret' = r
           /\ IF r.err # None
              THEN /\ sstage' = "failed"
                   /\ UNCHANGED souts
              ELSE /\ sstage' = "compiled"
                   /\ souts' = Refreshed(sop, r.ret)
    /\ UNCHANGED sop

\* c_perform: the thunk of the compiled module runs and fills the outputs
SPerform ==
    /\ sstage = "compiled"
    /\ sstage' = "executed"
    /\ souts' = [k \in DOMAIN souts |-> [souts[k] EXCEPT !.data = "computed"]]
    /\ UNCHANGED <<sop, sret>>

SInit ==
    /\ sop \in InferOps
    /\ sret = NoInference
    /\ souts = [k \in 1..sop.nout |-> Unallocated]
    /\ sstage = "new"

SIdle ==
    /\ sop = [cls |-> None, inputs |-> <<>>, nout |-> 0]
    /\ sret = NoInference
    /\ souts = <<>>
    /\ sstage = "new"

----------------------------------------------------------------------------
(* Views and copies: transpose, transpose_copy, get_slice                  *)

\* An ndarray: its memory block, shape, strides (in elements) and the offset
\* of its first element in the block. Indices count from 0.
NoArray == [buf |-> 0, shape |-> <<>>, strides |-> <<>>, offset |-> 0]

RECURSIVE Prod(_)
Prod(shape) == IF shape = <<>> THEN 1 ELSE shape[1] * Prod(Tail(shape))

Reverse(seq) == [k \in 1..Len(seq) |-> seq[Len(seq) + 1 - k]]

\* strides of a new array in C order
CStridesOf(shape) == [k \in 1..Len(shape) |-> Prod(SubSeq(shape, k + 1, Len(shape)))]

IndexSet(shape) == {idx \in [1..Len(shape) -> 0..3] : \A k \in 1..Len(shape) : idx[k] < shape[k]}

RECURSIVE Dot(_, _)
Dot(idx, strides) ==
    IF idx = <<>> THEN 0 ELSE idx[1] * strides[1] + Dot(Tail(idx), Tail(strides))

\* arr[idx]
At(bufs, arr, idx) == bufs[arr.buf][1 + arr.offset + Dot(idx, arr.strides)]

\* position of idx in the C-order enumeration of the elements of shape
CPosition(shape, idx) == 1 + Dot(idx, CStridesOf(shape))
CIndex(shape, pos) == CHOOSE idx \in IndexSet(shape) : CPosition(shape, idx) = pos

\* impl of transpose, numpy.transpose(x): a view with the axes reversed
numpy_transpose(bufs, x) ==
    [bufs |-> bufs,
     arr  |-> [buf |-> x.buf, shape |-> Reverse(x.shape),
               strides |-> Reverse(x.strides), offset |-> x.offset]]

\* returns its argument: no copy
numpy_asarray(bufs, x) == [bufs |-> bufs, arr |-> x]

\* impl of array_copy, numpy.array(x): a new block with the elements of x
numpy_array(bufs, x) ==
    LET new == Len(bufs) + 1
    IN  [bufs |-> Append(bufs, [pos \in 1..Prod(x.shape) |-> At(bufs, x, CIndex(x.shape, pos))]),
         arr  |-> [buf |-> new, shape |-> x.shape,
                   strides |-> CStridesOf(x.shape), offset |-> 0]]

\* sys.maxint, the stop __getslice__ receives for x[:]
Maxint == 99

\* the slices taken: x[:], x[1:3], x[0:8:2], as <<start, stop, step>>
Slices == {<<0, Maxint, 1>>, <<1, 3, 1>>, <<0, 8, 2>>}

Min(a, b) == IF a < b THEN a ELSE b

\* the number of elements of slice item over an axis of length n
SliceLength(item, n) ==
    LET stop == Min(item[2], n)
    IN  IF stop <= item[1] THEN 0 ELSE (stop - item[1] + item[3] - 1) \div item[3]

\* the slice starts at the first element of the axis whatever item.start is
getitem_from_zero(bufs, x, item) ==
    [bufs |-> bufs,
     arr  |-> [buf |-> x.buf,
               shape |-> <<SliceLength(item, x.shape[1])>> \o Tail(x.shape),
               strides |-> <<item[3] * x.strides[1]>> \o Tail(x.strides),
               offset |-> x.offset]]

\* impl of get_slice, x.__getitem__(item) for a slice: a view of the first axis
getitem(bufs, x, item) ==
    [bufs |-> bufs,
     arr  |-> [buf |-> x.buf,
               shape |-> <<SliceLength(item, x.shape[1])>> \o Tail(x.shape),
               strides |-> <<item[3] * x.strides[1]>> \o Tail(x.strides),
               offset |-> x.offset + item[1] * x.strides[1]]]

\* transpose.specs(x) on the spec of the input: its shape entry
transpose_specs(shape) ==
    IF Len(shape) < 2 THEN [err |-> "IndexError", shape |-> <<>>]
    ELSE [err |-> None, shape |-> <<shape[2], shape[1]>>]

NoNode == [op |-> None, data |-> NoArray, spec |-> <<>>, item |-> <<>>,
           snap |-> <<>>, refreshed |-> FALSE, err |-> None]

NoWrite == [kind |-> None, idx |-> <<>>, val |-> 0, err |-> None]

\* the elements of a, by index
Contents(bufs, x) == [idx \in IndexSet(x.shape) |-> At(bufs, x, idx)]

\* NumpyR.set_value(value), refresh: the node holds the data and its spec
Computed(op, arr, item, snap) ==
    [op |-> op, data |-> arr, spec |-> arr.shape, item |-> item,
     snap |-> snap, refreshed |-> FALSE, err |-> None]

\* ta = transpose(a), evaluated by impl
VTranspose ==
    /\ vnode.op = None
    /\ LET r == numpy_transpose(vbufs, va)
       IN  /\ vbufs' = r.bufs
           /\ vnode' = Computed("transpose", r.arr, <<>>, Contents(vbufs, va))
    /\ vlast' = NoWrite
    /\ UNCHANGED <<va, vwrites>>

\* refresh of the transpose operator: its output takes the spec that
\* transpose.specs gives for the spec of the input
VRefresh ==
    /\ vnode.op = "transpose"
    /\ ~vnode.refreshed
    /\ LET r == transpose_specs(va.shape)
       IN  vnode' = IF r.err # None
                    THEN [vnode EXCEPT !.refreshed = TRUE, !.err = r.err]
                    ELSE [vnode EXCEPT !.refreshed = TRUE, !.spec = r.shape]
    /\ UNCHANGED <<vbufs, va, vlast, vwrites>>

\* ta = transpose_copy(a): array_copy(transpose(x)), evaluated by impl
VTransposeCopy ==
    /\ vnode.op = None
    /\ LET t == numpy_transpose(vbufs, va)
           r == numpy_array(t.bufs, t.arr)
       IN  /\ vbufs' = r.bufs
           /\ vnode' = Computed("transpose_copy", r.arr, <<>>, Contents(vbufs, va))
    /\ vlast' = NoWrite
    /\ UNCHANGED <<va, vwrites>>

\* wa1 = wrap(a)[item]: NumpyR.__getslice__ / __getitem__, get_slice
VGetSlice(item) ==
    /\ vnode.op = None
    /\ LET r == getitem(vbufs, va, item)
       IN  /\ vbufs' = r.bufs
           /\ vnode' = Computed("get_slice", r.arr, item, Contents(vbufs, va))
    /\ vlast' = NoWrite
    /\ UNCHANGED <<va, vwrites>>

\* a[idx] = val, by the owner of a
VWrite(idx, val) ==
    /\ vwrites < MaxWrites
    /\ idx \in IndexSet(va.shape)
    /\ vbufs' = [vbufs EXCEPT ![va.buf][1 + va.offset + Dot(idx, va.strides)] = val]
    /\ vlast' = [kind |-> "write", idx |-> idx, val |-> val, err |-> None]
    /\ vwrites' = vwrites + 1
    /\ UNCHANGED <<va, vnode>>

\* wa1[i] = val on the node: NumpyR defines no __setitem__
VSetItem(i, val) ==
    /\ vwrites < MaxWrites
    /\ vnode.op # None
    /\ vlast' = [kind |-> "setitem", idx |-> <<i>>, val |-> val, err |-> "TypeError"]
    /\ vwrites' = vwrites + 1
    /\ UNCHANGED <<vbufs, va, vnode>>

VShapes == {<<3>>, <<2, 2>>, <<2, 1, 2>>}
VValues == {7, 8}

VInit ==
    /\ \E shape \in VShapes :
          /\ va = [buf |-> 1, shape |-> shape, strides |-> CStridesOf(shape), offset |-> 0]
          /\ vbufs = <<[pos \in 1..Prod(shape) |-> pos - 1]>>
    /\ vnode = NoNode
    /\ vlast = NoWrite
    /\ vwrites = 0

VIdle ==
    /\ vbufs = <<>>
    /\ va = NoArray
    /\ vnode = NoNode
    /\ vlast = NoWrite
    /\ vwrites = 0

----------------------------------------------------------------------------
(* literal, wrap and input called directly                                 *)

\* Raw values: py names the object, v its hash key (equal numbers share it)
\* or its id
WrapValues ==
    { [t |-> "num",  v |-> 5, rank |-> 0, py |-> "5"],
      [t |-> "num",  v |-> 5, rank |-> 0, py |-> "5.0"],
      [t |-> "num",  v |-> 6, rank |-> 0, py |-> "6"],
      [t |-> "arr",  v |-> 1, rank |-> 2, py |-> "a"],
      [t |-> "list", v |-> 3, rank |-> NoShape, py |-> "l"] }

\* The graph before the calls: two NumpyR inputs, a PythonR, a Result of
\* another kind, and an operator over the inputs with its output
WrapResults ==
    GraphInputs \o
    << [cls |-> "PythonR", constant |-> FALSE, rank |-> NoShape],
       [cls |-> "Result",  constant |-> FALSE, rank |-> NoShape],
       [cls |-> "NumpyR",  constant |-> FALSE, rank |-> 2] >>

WrapOps == << [cls |-> "add_elemwise", inputs |-> <<1, 2>>, out |-> 5, dmap |-> {}] >>

WrapArgs ==
    WrapValues
    \cup {[t |-> "res", v |-> i, rank |-> 0, py |-> "r"] : i \in 1..Len(results)}
    \cup {[t |-> "op",  v |-> k, rank |-> 0, py |-> "o"] : k \in 1..Len(ops)}

Tables == [results |-> results, db |-> literals_db, iddb |-> literals_id_db]

Returned(f, x, w) ==
    /\ results' = w.st.results
    /\ literals_db' = w.st.db
    /\ literals_id_db' = w.st.iddb
    /\ last' = [f |-> f, arg |-> x, ret |-> w.r, err |-> w.err, nres |-> Len(results)]
    /\ ncalls' = ncalls + 1
    /\ UNCHANGED ops

\* literal(x)
Literal(x) ==
    /\ ncalls < MaxWrapCalls
    /\ x.t # "op"
    /\ Returned("literal", x, literal(x, Tables))

\* wrap(x)
Wrap(x) ==
    /\ ncalls < MaxWrapCalls
    /\ Returned("wrap", x, wrap(x, Tables, ops))

\* input(x)
Input(x) ==
    /\ ncalls < MaxWrapCalls
    /\ LET i == input(x)
       IN  Returned("input", x,
                    IF i.err # None THEN [st |-> Tables, r |-> 0, err |-> i.err]
                    ELSE [st |-> [Tables EXCEPT !.results = Append(@, i.r)],
                          r |-> Len(results) + 1, err |-> None])

NoWrapCall == [f |-> None, arg |-> <<>>, ret |-> 0, err |-> None, nres |-> 0]

WInit ==
    /\ results = WrapResults
    /\ literals_db = [k \in {x.v : x \in {y \in WrapValues : y.t = "num"}} |-> 0]
    /\ literals_id_db = [k \in {x.v : x \in {y \in WrapValues : y.t # "num"}} |-> 0]
    /\ ops = WrapOps
    /\ last = NoWrapCall
    /\ ncalls = 0

----------------------------------------------------------------------------
(* The interpreted implementations of the arithmetic operators             *)

\* An array is its shape and the value all its elements have
ImplShapes == {<<>>, <<2>>, <<3>>, <<1, 2>>, <<2, 2>>}
ImplValues == {2, 3}
ImplArrays == [shape : ImplShapes, val : ImplValues]

\* classes whose impl is assert_same_shapes(...)
SameShapesClasses ==
    {"add_elemwise", "sub_elemwise", "mul_elemwise", "div_elemwise", "pow_elemwise",
     "add_elemwise_inplace", "sub_elemwise_inplace", "mul_elemwise_inplace",
     "div_elemwise_inplace", "pow_elemwise_inplace"}

\* classes whose impl is tensor_scalar_impl(...)
TensorScalarClasses ==
    {"add_scalar", "scale", "pow_scalar_l", "pow_scalar_r",
     "add_scalar_inplace", "scale_inplace", "pow_scalar_r_inplace"}

\* the numpy.ndarray method each impl wraps
Method(cls) ==
    IF cls \in {"add_elemwise", "add_scalar"} THEN "__add__"
    ELSE IF cls \in {"add_elemwise_inplace", "add_scalar_inplace"} THEN "__iadd__"
    ELSE IF cls = "sub_elemwise" THEN "__sub__"
    ELSE IF cls = "sub_elemwise_inplace" THEN "__isub__"
    ELSE IF cls \in {"mul_elemwise", "scale"} THEN "__mul__"
    ELSE IF cls \in {"mul_elemwise_inplace", "scale_inplace"} THEN "__imul__"
    ELSE IF cls = "div_elemwise" THEN "__div__"
    ELSE IF cls = "div_elemwise_inplace" THEN "__idiv__"
    ELSE IF cls \in {"pow_elemwise", "pow_scalar_r"} THEN "__pow__"
    ELSE IF cls = "pow_scalar_l" THEN "__rpow__"
    ELSE "__ipow__"

IsInplaceMethod(m) == m \in {"__iadd__", "__isub__", "__imul__", "__idiv__", "__ipow__"}

RECURSIVE Power(_, _)
Power(b, e) == IF e = 0 THEN 1 ELSE b * Power(b, e - 1)

\* one element of the result
Element(m, a, b) ==
    IF m \in {"__add__", "__iadd__"} THEN a + b
    ELSE IF m \in {"__sub__", "__isub__"} THEN a - b
    ELSE IF m \in {"__mul__", "__imul__"} THEN a * b
    ELSE IF m \in {"__div__", "__idiv__"} THEN a \div b
    ELSE IF m = "__rpow__" THEN Power(b, a)
    ELSE Power(a, b)

\* numpy broadcasting: shapes are aligned at their last axis; two axes agree
\* when they are equal or one of them is 1
Padded(s, n) == [k \in 1..n |-> IF k <= n - Len(s) THEN 1 ELSE s[k - (n - Len(s))]]

Max(a, b) == IF a >= b THEN a ELSE b

Broadcastable(s, t) ==
    LET n == Max(Len(s), Len(t))
    IN  \A k \in 1..n :
           Padded(s, n)[k] = Padded(t, n)[k] \/ Padded(s, n)[k] = 1 \/ Padded(t, n)[k] = 1

Broadcast(s, t) ==
    LET n == Max(Len(s), Len(t))
    IN  [k \in 1..n |-> Max(Padded(s, n)[k], Padded(t, n)[k])]

NoValue == [shape |-> <<>>, val |-> 0]

\* numpy.ndarray.__add__ and the like: the result is a new array of the
\* broadcast shape; an in-place method writes into x, which must have the
\* broadcast shape already
ndarray_method(m, x, y) ==
    IF ~Broadcastable(x.shape, y.shape)
       \/ (IsInplaceMethod(m) /\ Broadcast(x.shape, y.shape) # x.shape)
    THEN [err |-> "ValueError: shape mismatch", computed |-> FALSE, z |-> NoValue, x |-> x]
    ELSE LET z == [shape |-> Broadcast(x.shape, y.shape), val |-> Element(m, x.val, y.val)]
         IN  [err |-> None, computed |-> TRUE, z |-> z,
              x |-> IF IsInplaceMethod(m) THEN z ELSE x]

\* the wrapped method is called whatever the shapes are
unchecked_shapes(m, x, y) == ndarray_method(m, x, y)

\* assert_same_shapes(impl)(x, y)
assert_same_shapes(m, x, y) ==
    IF y.shape # x.shape
    THEN [err |-> "The dimensions of the inputs do not match.",
          computed |-> FALSE, z |-> NoValue, x |-> x]
    ELSE ndarray_method(m, x, y)

\* tensor_scalar_impl(impl)(x, a)
tensor_scalar_impl(m, x, a) ==
    IF a.shape # <<>>
    THEN [err |-> "The second argument must be a scalar.",
          computed |-> FALSE, z |-> NoValue, x |-> x]
    ELSE ndarray_method(m, x, a)

\* cls.impl(x, y)
impl(cls, x, y) ==
    IF cls \in SameShapesClasses THEN assert_same_shapes(Method(cls), x, y)
    ELSE tensor_scalar_impl(Method(cls), x, y)

NotCalled == [err |-> None, computed |-> FALSE, z |-> NoValue, x |-> NoValue]

\* the implementation is called on the data of the two inputs
EImpl ==
    /\ eout = NotCalled
    /\ eout' = impl(eop.cls, eop.x, eop.y)
    /\ UNCHANGED eop

EInit ==
    /\ eop \in [cls : SameShapesClasses \cup TensorScalarClasses, x : ImplArrays, y : ImplArrays]
    /\ eout = NotCalled

EIdle ==
    /\ eop = [cls |-> None, x |-> NoValue, y |-> NoValue]
    /\ eout = NotCalled

----------------------------------------------------------------------------
(* The gradient rules of the addition operators                            *)

\* a rule that hands gz to both operands, whatever the class
grad_pass_through(cls, gz, st, os) == [st |-> st, os |-> os, ret |-> <<gz, gz>>]

\* add_elemwise.grad(x, y, gz) and add_scalar.grad(x, a, gz): the gradients
\* of the two inputs; sum(gz) constructs a sum operator over gz, whose
\* output has rank 0
grad(cls, gz, st, os) ==
    IF cls = "add_elemwise"
    THEN [st |-> st, os |-> os, ret |-> <<gz, gz>>]
    ELSE LET s == NewOp("sum", <<gz>>, st, os)
         IN  [st |-> [s.st EXCEPT !.results[s.r].rank = 0], os |-> s.os, ret |-> <<gz, s.r>>]

AddClasses == {"add_elemwise", "add_scalar"}

\* add(x, y)
Add(x, y) ==
    /\ gcall.n = 0
    /\ Call("add", x, y)
    /\ UNCHANGED gcall

\* the gradient rule of the addition node k is called with the gradient gz
\* of its output
Grad(k) ==
    /\ gcall.n < MaxGradCalls
    /\ ops[k].cls \in AddClasses
    /\ LET gz == Len(results) + 1
           st == [results |-> Append(results, [cls |-> "NumpyR", constant |-> FALSE,
                                               rank |-> results[ops[k].out].rank]),
                  db |-> literals_db, iddb |-> literals_id_db]
           g  == grad(ops[k].cls, gz, st, ops)
       IN  /\ results' = g.st.results
           /\ ops' = g.os
           /\ gcall' = [op |-> k, gz |-> gz, ret |-> g.ret, n |-> gcall.n + 1]
    /\ UNCHANGED <<literals_db, literals_id_db, last, ncalls>>

NoGradCall == [op |-> 0, gz |-> 0, ret |-> <<>>, n |-> 0]

AInit ==
    /\ DInit
    /\ gcall = NoGradCall

AIdle == gcall = NoGradCall

----------------------------------------------------------------------------
(* Interpreted evaluation of a graph with a destroyed Result               *)

\* Results: 1 is the Result that gets destroyed, 2 a zero-rank constant;
\* 3..6 are the outputs of the operators below
Destroyed == 1
Scalar == 2

\* the in-place operator (1), two other consumers of the Result (2, 3) and
\* a consumer of the output of the in-place operator (4)
Destroyer == 1
Consumers == {2, 3}

DestroyerClasses == {"neg_inplace", "twice_inplace", "add_scalar_inplace"}

GraphOps(cls) ==
    << [cls |-> cls,
        inputs |-> IF ImplArity(cls) = 1 THEN <<Destroyed>> ELSE <<Destroyed, Scalar>>,
        out |-> 3, dmap |-> ClassDmap(cls)],
       [cls |-> "twice", inputs |-> <<Destroyed>>, out |-> 4, dmap |-> {}],
       [cls |-> "neg",   inputs |-> <<Destroyed>>, out |-> 5, dmap |-> {}],
       [cls |-> "twice", inputs |-> <<3>>, out |-> 6, dmap |-> {}] >>

\* every operator computes into a new array and leaves its inputs alone
impl_on_copy(op, data, objs) ==
    LET new == Len(objs) + 1
    IN  [err |-> None, ret |-> new,
         objs |-> Append(objs, [buf |-> new, rank |-> objs[data[op.inputs[1]]].rank,
                                kind |-> "ndarray",
                                val |-> Apply(op.cls, InputValues(op, data, objs))])]

\* self._impl(): C._impl for a class made by inplace_version, the impl of
\* the class on the data of the inputs otherwise (a new array)
impl_of(op, data, objs) ==
    IF op.cls \in InplaceClasses THEN inplace_impl(op, data, objs)
    ELSE LET new == Len(objs) + 1
         IN  [err |-> None, ret |-> new,
              objs |-> Append(objs, [buf |-> new, rank |-> objs[data[op.inputs[1]]].rank,
                                     kind |-> "ndarray",
                                     val |-> Apply(op.cls, InputValues(op, data, objs))])]

Ran(k) == \E i \in 1..Len(hrun) : hrun[i].op = k

Raised == \E i \in 1..Len(hrun) : hrun[i].err # None

\* the operators whose outputs operator k reads
Producers(k) == {j \in 1..Len(hops) : hops[j].out \in {hops[k].inputs[i] : i \in 1..Len(hops[k].inputs)}}

\* operator k is executed: its inputs are computed; an error ends the
\* evaluation
HPerform(k) ==
    /\ ~Ran(k)
    /\ ~Raised
    /\ \A j \in Producers(k) : Ran(j)
    /\ LET r == impl_of(hops[k], hdata, hobjs)
           v == IF r.err = None THEN set_value(hdata, r.objs, hops[k].out, r.ret)
                ELSE [data |-> hdata, objs |-> r.objs]
       IN  /\ hobjs' = v.objs
           /\ hdata' = v.data
           /\ hrun' = Append(hrun, [op |-> k, err |-> r.err,
                                    read |-> InputValues(hops[k], hdata, hobjs)])
    /\ UNCHANGED hops

HInit ==
    /\ \E cls \in DestroyerClasses : hops = GraphOps(cls)
    /\ \E r \in Ranks :
          hobjs = <<[buf |-> 1, rank |-> r, kind |-> "ndarray", val |-> Initial(1)],
                    [buf |-> 2, rank |-> 0, kind |-> "ndarray", val |-> Initial(2)]>>
    /\ hdata = [r \in 1..6 |-> IF r <= 2 THEN r ELSE UNCOMPUTED]
    /\ hrun = <<>>

HIdle ==
    /\ hops = <<>>
    /\ hdata = <<>>
    /\ hobjs = <<>>
    /\ hrun = <<>>

----------------------------------------------------------------------------
(* elemwise.inplace_version: the aliasing map of a derived class           *)

\* base classes: one loop output, two loop outputs, and an output outside
\* the loop
BaseClasses == {"add_elemwise", "pair", "reduce"}

\* dmap: a dict from output positions to input positions, as a set of pairs
\* <<output, input>> with one pair per output
Dmaps ==
    {d \in SUBSET ({0, 1} \X {0, 1, 2}) :
        \A p \in d, q \in d : p[1] = q[1] => p = q}

\* inplace_version: for i, oname in enumerate(onames): if i in dmap:
\* assert oname in lonames
inplace_version(base, dmap) ==
    LET c == Names(base)
    IN  IF \E p \in dmap : p[1] < Len(c.onames) /\ ~InSeq(c.onames[p[1] + 1], c.lonames)
        THEN "AssertionError" ELSE None

\* C.destroy_map: ret[self.outputs[output]] = [self.inputs[input]] raises
\* IndexError for a position the instance does not have
derived_destroy_map(base, dmap) ==
    LET c == Names(base)
    IN  IF \E p \in dmap : p[1] >= Len(c.onames) \/ p[2] >= Len(c.inames)
        THEN [err |-> "IndexError", ret |-> {}]
        ELSE [err |-> None, ret |-> dmap]

\* aliases of elemwise.c_code: input name -> output name, for the loop
\* outputs in the order of onames; a later output replaces an earlier one
RECURSIVE AliasesUpTo(_, _, _)
AliasesUpTo(c, dmap, n) ==
    IF n = 0 THEN <<>>
    ELSE LET before == AliasesUpTo(c, dmap, n - 1)
             here   == {p \in dmap : p[1] = n - 1}
         IN  IF here = {} \/ ~InSeq(c.onames[n], c.lonames) THEN before
             ELSE LET iname == c.inames[(CHOOSE p \in here : TRUE)[2] + 1]
                  IN  [k \in DOMAIN before \cup {iname} |->
                         IF k = iname THEN c.onames[n] ELSE before[k]]

NotDerived == [stage |-> "new", err |-> None, aliases |-> <<>>]

\* C = cls.inplace_version(dmap)
MDerive ==
    /\ mrun.stage = "new"
    /\ LET e == inplace_version(mreq.base, mreq.dmap)
       IN  mrun' = [mrun EXCEPT !.stage = IF e = None THEN "derived" ELSE "failed",
                                !.err = e]
    /\ UNCHANGED mreq

\* C(*inputs) on specified NumpyR inputs: the output specs are inferred by
\* _specs, which asks the instance for its destroy map
MConstruct ==
    /\ mrun.stage = "derived"
    /\ LET c == Names(mreq.base)
           e == IF \E k \in 1..Len(c.onames) : ~InSeq(c.onames[k], c.lonames)
                THEN "Exception"
                ELSE derived_destroy_map(mreq.base, mreq.dmap).err
       IN  mrun' = [mrun EXCEPT !.stage = IF e = None THEN "constructed" ELSE "failed",
                                !.err = e]
    /\ UNCHANGED mreq

\* c_code: the kernel is generated with the aliases of the destroy map
MGenerate ==
    /\ mrun.stage = "constructed"
    /\ mrun' = [mrun EXCEPT !.stage = "generated",
                            !.aliases = AliasesUpTo(Names(mreq.base),
                                                    derived_destroy_map(mreq.base, mreq.dmap).ret,
                                                    Len(Names(mreq.base).onames))]
    /\ UNCHANGED mreq

\* c_perform: the kernel writes the buffers of the outputs
MPerform ==
    /\ mrun.stage = "generated"
    /\ mrun' = [mrun EXCEPT !.stage = "written"]
    /\ UNCHANGED mreq

MInit ==
    /\ mreq \in [base : BaseClasses, dmap : Dmaps]
    /\ mrun = NotDerived

MIdle ==
    /\ mreq = [base |-> None, dmap |-> {}]
    /\ mrun = NotDerived

----------------------------------------------------------------------------
(* build: the stack of modes                                               *)

\* build_mode(): the mode is pushed
build_mode(stack) == Append(stack, "build")

\* pop_mode(): the last mode is removed
pop_mode(stack) == SubSeq(stack, 1, Len(stack) - 1)

\* build(f, ...) is entered, at top level or inside the f of another build:
\* build_mode(), then f starts
BCall ==
    /\ Len(frames) < MaxDepth
    /\ Len(modes) < MaxModes
    /\ modes' = build_mode(modes)
    /\ frames' = Append(frames, modes)
    /\ UNCHANGED blast

\* the f of the innermost build returns: pop_mode(); return r
BReturn ==
    /\ frames # <<>>
    /\ modes' = pop_mode(modes)
    /\ frames' = SubSeq(frames, 1, Len(frames) - 1)
    /\ blast' = [outcome |-> "returned", before |-> frames[Len(frames)], after |-> modes']

\* the f of the innermost build raises: the error leaves build at the call
\* of f
BRaise ==
    /\ frames # <<>>
    /\ frames' = SubSeq(frames, 1, Len(frames) - 1)
    /\ blast' = [outcome |-> "raised", before |-> frames[Len(frames)], after |-> modes]
    /\ UNCHANGED modes

StartModes == {<<>>, <<"eval">>, <<"build_eval">>}

BInit ==
    /\ modes \in StartModes
    /\ frames = <<>>
    /\ blast = [outcome |-> None, before |-> <<>>, after |-> <<>>]

BIdle ==
    /\ modes = <<>>
    /\ frames = <<>>
    /\ blast = [outcome |-> None, before |-> <<>>, after |-> <<>>]

----------------------------------------------------------------------------
(* Specifications                                                          *)

InitDispatch == DInit /\ GIdle /\ KIdle /\ CIdle /\ LIdle /\ IIdle /\ SIdle /\ VIdle /\ EIdle /\ AIdle /\ HIdle /\ MIdle /\ BIdle
NextDispatch ==
    \E f \in FamilyNames, x \in Operands, y \in Operands :
        Call(f, x, y) /\ UNCHANGED exceptD

InitGrad == GInit /\ DIdle /\ KIdle /\ CIdle /\ LIdle /\ IIdle /\ SIdle /\ VIdle /\ EIdle /\ AIdle /\ HIdle /\ MIdle /\ BIdle
NextGrad ==
    \/ \E op \in GradOps : \E ret \in GradReturns(op) :
          UpdateGradient(op, ret) /\ UNCHANGED exceptG
    \/ \E r \in GradResults, g \in GradValues :
          Contribute(r, g) /\ UNCHANGED exceptG

SpecGrad == InitGrad /\ [][NextGrad]_vars

InitKernel == KInit /\ DIdle /\ GIdle /\ CIdle /\ LIdle /\ IIdle /\ SIdle /\ VIdle /\ EIdle /\ AIdle /\ HIdle /\ MIdle /\ BIdle
NextKernel == Execute /\ UNCHANGED exceptK

SpecKernel == InitKernel /\ [][NextKernel]_vars

InitCache == CInit /\ DIdle /\ GIdle /\ KIdle /\ LIdle /\ IIdle /\ SIdle /\ VIdle /\ EIdle /\ AIdle /\ HIdle /\ MIdle /\ BIdle
NextCache ==
    \/ \E p \in Procs, op \in FactoryOps : Begin(p, op) /\ UNCHANGED exceptC
    \/ \E p \in Procs : StartLink(p) /\ UNCHANGED exceptC
    \/ \E p \in Procs : FinishLink(p) /\ UNCHANGED exceptC
    \/ \E p \in Procs : Import(p) /\ UNCHANGED exceptC

SpecCache == InitCache /\ [][NextCache]_vars

InitLoop == LInit /\ DIdle /\ GIdle /\ KIdle /\ CIdle /\ IIdle /\ SIdle /\ VIdle /\ EIdle /\ AIdle /\ HIdle /\ MIdle /\ BIdle
NextLoop ==
    \/ CCode /\ UNCHANGED exceptL
    \/ RunThunk /\ UNCHANGED exceptL

SpecLoop == InitLoop /\ [][NextLoop]_vars

InitInplace == IInit /\ DIdle /\ GIdle /\ KIdle /\ CIdle /\ LIdle /\ SIdle /\ VIdle /\ EIdle /\ AIdle /\ HIdle /\ MIdle /\ BIdle
NextInplace ==
    \/ IAlloc /\ UNCHANGED exceptI
    \/ IPerform /\ UNCHANGED exceptI

SpecInplace == InitInplace /\ [][NextInplace]_vars

InitInfer == SInit /\ DIdle /\ GIdle /\ KIdle /\ CIdle /\ LIdle /\ IIdle /\ VIdle /\ EIdle /\ AIdle /\ HIdle /\ MIdle /\ BIdle
NextInfer ==
    \/ SThunkFactory /\ UNCHANGED exceptS
    \/ SPerform /\ UNCHANGED exceptS

SpecInfer == InitInfer /\ [][NextInfer]_vars

InitView == VInit /\ DIdle /\ GIdle /\ KIdle /\ CIdle /\ LIdle /\ IIdle /\ SIdle /\ EIdle /\ AIdle /\ HIdle /\ MIdle /\ BIdle
NextView ==
    \/ VTranspose /\ UNCHANGED exceptV
    \/ VRefresh /\ UNCHANGED exceptV
    \/ VTransposeCopy /\ UNCHANGED exceptV
    \/ \E item \in Slices : VGetSlice(item) /\ UNCHANGED exceptV
    \/ \E idx \in IndexSet(va.shape), val \in VValues : VWrite(idx, val) /\ UNCHANGED exceptV
    \/ \E i \in 0..1, val \in VValues : VSetItem(i, val) /\ UNCHANGED exceptV

SpecView == InitView /\ [][NextView]_vars

InitWrap == WInit /\ GIdle /\ KIdle /\ CIdle /\ LIdle /\ IIdle /\ SIdle /\ VIdle /\ EIdle /\ AIdle /\ HIdle /\ MIdle /\ BIdle
NextWrap ==
    \/ \E x \in WrapArgs : Literal(x) /\ UNCHANGED exceptD
    \/ \E x \in WrapArgs : Wrap(x) /\ UNCHANGED exceptD
    \/ \E x \in WrapArgs : Input(x) /\ UNCHANGED exceptD

SpecWrap == InitWrap /\ [][NextWrap]_vars

InitImpl == EInit /\ DIdle /\ GIdle /\ KIdle /\ CIdle /\ LIdle /\ IIdle /\ SIdle /\ VIdle /\ AIdle /\ HIdle /\ MIdle /\ BIdle
NextImpl ==
    \/ EImpl /\ UNCHANGED exceptE

SpecImpl == InitImpl /\ [][NextImpl]_vars

exceptDA == <<gvars, kvars, cvars, lvars, ivars, svars, vvars, evars, hvars, mvars, bvars>>

InitAddGrad == AInit /\ GIdle /\ KIdle /\ CIdle /\ LIdle /\ IIdle /\ SIdle /\ VIdle /\ EIdle /\ HIdle /\ MIdle /\ BIdle
NextAddGrad ==
    \/ \E x \in Operands, y \in Operands : Add(x, y) /\ UNCHANGED exceptDA
    \/ \E k \in 1..Len(ops) : Grad(k) /\ UNCHANGED exceptDA

SpecAddGrad == InitAddGrad /\ [][NextAddGrad]_vars

InitSchedule == HInit /\ DIdle /\ GIdle /\ KIdle /\ CIdle /\ LIdle /\ IIdle /\ SIdle /\ VIdle /\ EIdle /\ AIdle /\ MIdle /\ BIdle
NextSchedule ==
    \/ \E k \in 1..Len(hops) : HPerform(k) /\ UNCHANGED exceptH

SpecSchedule == InitSchedule /\ [][NextSchedule]_vars

InitDerive == MInit /\ DIdle /\ GIdle /\ KIdle /\ CIdle /\ LIdle /\ IIdle /\ SIdle /\ VIdle /\ EIdle /\ AIdle /\ HIdle /\ BIdle
NextDerive ==
    \/ MDerive /\ UNCHANGED exceptM
    \/ MConstruct /\ UNCHANGED exceptM
    \/ MGenerate /\ UNCHANGED exceptM
    \/ MPerform /\ UNCHANGED exceptM

SpecDerive == InitDerive /\ [][NextDerive]_vars

InitBuild == BInit /\ DIdle /\ GIdle /\ KIdle /\ CIdle /\ LIdle /\ IIdle /\ SIdle /\ VIdle /\ EIdle /\ AIdle /\ HIdle /\ MIdle
NextBuild ==
    \/ BCall /\ UNCHANGED exceptB
    \/ BReturn /\ UNCHANGED exceptB
    \/ BRaise /\ UNCHANGED exceptB

SpecBuild == InitBuild /\ [][NextBuild]_vars

SpecDispatch == InitDispatch /\ [][NextDispatch]_vars


----------------------------------------------------------------------------
(* Properties of the dispatcher                                            *)

IsZeroRankConstant(r) == results[r].constant /\ results[r].rank = 0
IsShapelessConstant(r) == results[r].constant /\ results[r].rank = NoShape

CalledWith(callee, a, b) ==
    /\ last.callee = callee
    /\ last.args = <<a, b>>
    /\ last.err = None
    /\ Len(ops) > last.nops

RaisedWithoutOperator(err) ==
    /\ last.err = err
    /\ last.callee = None
    /\ Len(ops) = last.nops

\* C1 as stated: f(x, y) dispatches on the wrapped operands in the order
\* (y zero-rank constant -> scalar_f(x, y)), (x zero-rank constant ->
\* scalar_f_reverse(y, x), or an error and no operator when there is no
\* reverse variant), otherwise normal_f(x, y); for every family.
C1_DispatchOrderAsStated ==
    last.f # None =>
        LET fam == Families[last.f]
        IN  IF IsZeroRankConstant(last.Y)
            THEN CalledWith(fam.scalar_f, last.X, last.Y)
            ELSE IF IsZeroRankConstant(last.X)
            THEN IF fam.scalar_f_reverse # None
                 THEN CalledWith(fam.scalar_f_reverse, last.Y, last.X)
                 ELSE RaisedWithoutOperator("TypeError")
            ELSE CalledWith(fam.normal_f, last.X, last.Y)

\* C1 amended: the same order holds whenever the zero-rank test can be made;
\* the test of a constant operand whose data has no shape (a raw list) raises
\* AttributeError and no operator is constructed. add(x, 5) selects add_scalar
\* on (x, 5) and add(5, x) selects add_scalar on (x, 5) as well.
C1_DispatchOrder ==
    last.f # None =>
        LET fam == Families[last.f]
        IN  /\ IF IsShapelessConstant(last.Y)
               THEN RaisedWithoutOperator("AttributeError")
               ELSE IF IsZeroRankConstant(last.Y)
               THEN CalledWith(fam.scalar_f, last.X, last.Y)
               ELSE IF IsShapelessConstant(last.X)
               THEN RaisedWithoutOperator("AttributeError")
               ELSE IF IsZeroRankConstant(last.X)
               THEN IF fam.scalar_f_reverse # None
                    THEN CalledWith(fam.scalar_f_reverse, last.Y, last.X)
                    ELSE RaisedWithoutOperator("TypeError")
               ELSE CalledWith(fam.normal_f, last.X, last.Y)
            /\ (last.f = "add" /\ IsZeroRankConstant(last.Y))
                    => CalledWith("add_scalar", last.X, last.Y)
            /\ (last.f = "add" /\ IsZeroRankConstant(last.X)
                    /\ ~results[last.Y].constant)
                    => CalledWith("add_scalar", last.Y, last.X)
            /\ (last.f = "add_inplace" /\ IsZeroRankConstant(last.X)
                    /\ ~results[last.Y].constant)
                    => RaisedWithoutOperator("TypeError")

\* C1 witness: an in-place family called with a zero-rank constant on the left
\* and a tensor on the right raised, and no operator was constructed.
C1_Witness ==
    /\ last.f = "sub_inplace"
    /\ IsZeroRankConstant(last.X)
    /\ ~results[last.Y].constant
    /\ last.err = "TypeError"
    /\ Len(ops) = last.nops

\* C7: no operator's destroy_map() names an input Result whose constant flag
\* is set.
C7_ConstantsNeverDestroyed ==
    \A k \in 1..Len(ops) :
        \A p \in destroy_map(ops[k]) : ~results[p[2]].constant

----------------------------------------------------------------------------
(* Properties of update_gradient                                           *)

\* the sum of the gradients returned for the positions where r is the input
RECURSIVE SumFor(_, _, _, _)
SumFor(r, ins, gs, i) ==
    IF i > Len(ins) THEN 0
    ELSE (IF ins[i] = r THEN gs[i] ELSE 0) + SumFor(r, ins, gs, i + 1)

Occurrences(r, ins) == Cardinality({i \in 1..Len(ins) : ins[i] = r})

\* C10: a successful update_gradient calls the rule with the inputs followed by
\* the accumulated gradient of each output, then adds exactly one contribution
\* per input position, in input order, under that input: a Result in k
\* positions receives k additive contributions, and a bare gradient of a
\* single-input operator counts as a one-element sequence.
C10_OneContributionPerPosition ==
    [][(glast' # glast /\ glast'.err = None) =>
         LET ins  == glast'.op.inputs
             outs == glast'.op.outputs
             gs   == glast'.ret.gs
             log  == glast'.log
         IN  /\ glast'.args.inputs = ins
             /\ glast'.args.gouts = [k \in 1..Len(outs) |-> grad_d[outs[k]]]
             /\ Len(gs) = Len(ins)
             /\ log = [i \in 1..Len(ins) |-> <<ins[i], gs[i]>>]
             /\ \A r \in GradResults :
                  /\ Cardinality({i \in 1..Len(log) : log[i][1] = r})
                          = Occurrences(r, ins)
                  /\ grad_d'[r] = grad_d[r] + SumFor(r, ins, gs, 1)
             /\ glast'.ret.kind = "bare" => (Len(ins) = 1 /\ Len(log) = 1)]_vars

\* C10 witness: an operator using one Result in both input positions has run,
\* after that Result already held a contribution.
C10_Witness ==
    /\ glast.err = None
    /\ glast.op.inputs = <<1, 1>>
    /\ glast.prev[1] > 0
    /\ Len(glast.log) = 2
    /\ grad_d[1] = glast.prev[1] + glast.ret.gs[1] + glast.ret.gs[2]

\* C11: when the rule returns a sequence whose length differs from the number
\* of inputs, update_gradient fails with an error and the accumulator is the
\* same as before the call: no contribution is added.
C11_ArityMismatchAddsNothing ==
    [][(glast' # glast /\ glast'.ret.kind = "seq"
            /\ Len(glast'.ret.gs) # Len(glast'.op.inputs)) =>
         /\ glast'.err = "AssertionError"
         /\ glast'.log = <<>>
         /\ grad_d' = grad_d]_vars

\* C11 witness: a two-input operator whose rule returned one gradient failed,
\* and the contribution its first input already held is all that input holds.
C11_Witness ==
    /\ glast.err = "AssertionError"
    /\ Len(glast.op.inputs) = 2
    /\ Len(glast.ret.gs) = 1
    /\ glast.prev[glast.op.inputs[1]] > 0
    /\ grad_d = glast.prev

\* C12: a rule returning UNDEFINED is accepted by update_gradient: the call
\* does not fail, and UNDEFINED is recorded as the contribution of the input.
C12_SentinelAccepted ==
    glast.ret.kind = "undefined" =>
        /\ glast.err = None
        /\ Len(glast.log) = Len(glast.op.inputs)


----------------------------------------------------------------------------
(* The exits of the dot / gemm kernel                                      *)

Executed == kres # NotRun

\* what the kernel supports: rank 2 everywhere, one float or double dtype
\* (and float or double scalars for gemm), positive element-aligned strides,
\* a unit stride in each array
SupportedLayout(k) ==
    /\ k.x.nd = 2 /\ k.y.nd = 2 /\ k.z.nd = 2
    /\ k.op = "gemm" => IsFloatOrDouble(k.a) /\ IsFloatOrDouble(k.b)
    /\ IsFloatOrDouble(k.x.type)
    /\ k.x.type = k.y.type /\ k.x.type = k.z.type
    /\ \A s \in {k.x.strides, k.y.strides, k.z.strides} :
          /\ s[1] >= 1 /\ s[2] >= 1
          /\ s[1] % ElSize(k.x.type) = 0 /\ s[2] % ElSize(k.x.type) = 0
          /\ ElSize(k.x.type) \in {s[1], s[2]}

DimensionsAgree(k) ==
    /\ k.x.dims[1] = k.z.dims[1]
    /\ k.x.dims[2] = k.y.dims[1]
    /\ k.y.dims[2] = k.z.dims[2]

\* C9 (as stated): every exit of the kernel is one of three outcomes:
\* status 0 with all operands supported and their dimensions agreeing, non-zero
\* with NotImplementedError set for an unsupported rank, dtype or stride
\* layout, non-zero with a genuine error set when the dimensions disagree;
\* no non-zero exit leaves the error indicator unset.
C9_ThreeOutcomes ==
    Executed =>
        LET e == kres.exit
        IN  /\ e.status = 0 => SupportedLayout(kin) /\ DimensionsAgree(kin)
            /\ e.status # 0 => e.err # None
            /\ (e.status # 0 /\ e.err = NotImplementedError) => ~SupportedLayout(kin)
            /\ (e.status # 0 /\ e.err # NotImplementedError) => ~DimensionsAgree(kin)

\* the kernel left through the unsupported-layout exit
SignalledUnsupported == Executed /\ kres.exit.status # 0 /\ kres.exit.err = NotImplementedError

\* C8: when the thunk signals the unsupported-layout condition the
\* execution computes the outputs with the interpreted implementation and the
\* caller sees a result and no error; every other non-zero status reaches the
\* caller as an error.
C8_FallbackGivesResult ==
    /\ SignalledUnsupported => kres.path = "impl" /\ kres.seen = None
    /\ (Executed /\ kres.exit.status # 0 /\ ~SignalledUnsupported)
          => kres.path = "thunk" /\ kres.seen # None

----------------------------------------------------------------------------
(* The compile directory                                                   *)

\* C4: when two processes run c_thunk_factory for the same source on one
\* compile directory, no import ever loads a partially written artifact.
C4_NoPartialLoad ==
    \A p \in Procs : \A i \in 1..Len(history[p]) : history[p][i].seen # "partial"

\* process p is the only one that has used the compile directory
Alone(p) == \A q \in Procs \ {p} : cur[q] = Idle /\ history[q] = <<>>

CallsFor(p, code) == {i \in 1..Len(history[p]) : c_code(history[p][i].op) = code}

\* C5: a process that works alone on the compile directory and calls
\* c_thunk_factory for operators with the same generated source runs the
\* native compiler exactly once for that source: at the first call; every
\* later call has the same module name, compiles nothing and gets the
\* complete artifact (or the module already imported from it).
C5_OneCompilation ==
    \A p \in Procs : Alone(p) =>
        \A code \in {c_code(op) : op \in FactoryOps} :
            LET calls == CallsFor(p, code)
            IN  \A i \in calls :
                  /\ history[p][i].compiled <=> (\A j \in calls : i <= j)
                  /\ \A j \in calls : history[p][j].name = history[p][i].name
                  /\ history[p][i].seen \in {"complete", "module"}

\* two different instances with the same source: one compilation, one reuse
C5_Witness ==
    /\ Alone(1)
    /\ Len(history[1]) = 2
    /\ history[1][1].op = 1 /\ history[1][1].compiled
    /\ history[1][2].op = 2 /\ ~history[1][2].compiled
    /\ history[1][2].seen = "module"

----------------------------------------------------------------------------
(* The generated loops                                                     *)

\* C3: whenever the layout of the loop arrays lets the contiguous loop run
\* (all row-major, or all column-major), the values it leaves in every
\* output are those the general loop writes to the same elements.
C3_ContiguousEqualsGeneral ==
    (lrun # NoRun /\ lrun.path = "contiguous") =>
        OutputValues(lop, lrun.heap) =
            OutputValues(lop, RunPath(lop, lcode, "general"))

\* the loop output of an in-place operator shares its storage with an input
AliasedLoopOutput ==
    /\ lcode # NoCode
    /\ ElemClass(lop.cls).lonames # <<>>
    /\ \E d \in destroy_map(lop) : d[1] = lop.out

\* the cursors both loops declare over the buffer of the output
CursorsOnOutputStorage ==
    {i \in 1..Len(lcode.cursors) :
        NameArray(lop, lcode.cursors[i]).buf = lop.arr[lop.out].buf}

\* C6: when a loop output is aliased to an input, the generated loops have
\* exactly one cursor on the shared storage, the output's; the name of the
\* aliased input is not a read loop variable and is bound from the element
\* of the output.
C6_OneCursorForSharedStorage ==
    AliasedLoopOutput =>
        LET c     == ElemClass(lop.cls)
            iname == c.inames[Index(lop.inputs,
                        (CHOOSE d \in destroy_map(lop) : d[1] = lop.out)[2])]
        IN  /\ Cardinality(CursorsOnOutputStorage) = 1
            /\ \A i \in CursorsOnOutputStorage : InSeq(lcode.cursors[i], c.lonames)
            /\ ~InSeq(iname, lcode.loop_vars)
            /\ <<iname, c.onames[1]>> \in lcode.aliases

----------------------------------------------------------------------------
(* Storage of in-place outputs                                             *)

\* alloc has run and the interpreted implementation has returned
AllocatedAndComputed == iop # <<>> /\ idone.alloc /\ idone.impl = "ok"

\* C2: after alloc and the interpreted implementation, every output named in
\* the destroy map of an operator made by inplace_version holds the very
\* object, hence the very buffer, that its aliased input holds.
C2_OutputSharesInputStorage ==
    AllocatedAndComputed =>
        \A d \in destroy_map(iop) :
            /\ idata[d[1]] # UNCOMPUTED
            /\ idata[d[1]] = idata[d[2]]
            /\ iobjs[idata[d[1]]].buf = iobjs[idata[d[2]]].buf

\* an operator with the default implementation, whose output held an array of
\* the caller and was skipped by alloc: the fresh result was copied back and
\* the output now holds the input's array
C2_Witness ==
    /\ AllocatedAndComputed
    /\ iop.cls = "twice_inplace"
    /\ iop.except_list = {Out}
    /\ Len(iobjs) = 4
    /\ idata[Out] = idata[1]

----------------------------------------------------------------------------
(* Properties of the default inference                                     *)

\* least upper bound of a set of dtypes in the promotion order
\* int32 < float64, float32 < float64
Promotes(a, b) == a = b \/ b = "float64"
IsJoin(d, T) ==
    /\ \A t \in T : Promotes(t, d)
    /\ \A e \in DTypes : (\A t \in T : Promotes(t, e)) => Promotes(d, e)

NoKnownLoopInput(op) ==
    LET c == Names(op.cls)
    IN  \A k \in 1..Len(op.inputs) :
            InSeq(c.inames[k], c.linames) => op.inputs[k].spec \in {NoSpec, EmptySpec}

UnspecifiedTensorInput(op) ==
    \E k \in 1..Len(op.inputs) :
        op.inputs[k].numpy /\ op.inputs[k].spec \in {NoSpec, EmptySpec}

InferenceRan == sstage # "new"

\* C13: when no loop input has a known spec, or some NumpyR input has no
\* spec, or some output is not a loop variable, the inference raises, returns
\* no spec, and the operator's outputs are never allocated, its code never
\* compiled and never run.
C13_InferenceFailsFirst ==
    (InferenceRan /\ (\/ NoKnownLoopInput(sop)
                      \/ UnspecifiedTensorInput(sop)
                      \/ OutputOutsideLoop(sop))) =>
        /\ sret.err # None
        /\ sret.ret = <<>>
        /\ sstage = "failed"
        /\ \A k \in DOMAIN souts : souts[k] = Unallocated

\* C13 witness: add_elemwise(x, y) with x specified and the NumpyR y without a
\* spec failed in the dtype promotion.
C13_Witness ==
    /\ sstage = "failed"
    /\ sop.cls = "add_elemwise"
    /\ IsTrue(sop.inputs[1].spec)
    /\ sop.inputs[2].numpy
    /\ sop.inputs[2].spec = NoSpec
    /\ sret.err = "TypeError"

\* C14: when the inference succeeds, an output aliased by the destroy map has
\* exactly the spec of its input, every other output has (ndarray, join of the
\* dtypes of all NumpyR inputs, shape of a loop input with a known spec); one
\* output gives the spec itself, several give the list in output order.
C14_DefaultSpecs ==
    (InferenceRan /\ sret.err = None) =>
        LET c   == Names(sop.cls)
            exp(k, sp) ==
                IF \E p \in InferDmap(sop.cls) : p[1] + 1 = k
                THEN \E p \in InferDmap(sop.cls) :
                        p[1] + 1 = k /\ sp = sop.inputs[p[2] + 1].spec
                ELSE /\ Len(sp) = 3
                     /\ sp[1] = "ndarray"
                     /\ IsJoin(sp[2], {sop.inputs[j].spec[2] : j \in NumpyInputs(sop)})
                     /\ \E j \in 1..Len(sop.inputs) :
                           /\ InSeq(c.inames[j], c.linames)
                           /\ IsTrue(sop.inputs[j].spec)
                           /\ sp[3] = sop.inputs[j].spec[3]
        IN  /\ sop.nout = 1 => exp(1, sret.ret)
            /\ sop.nout > 1 =>
                  /\ Len(sret.ret) = sop.nout
                  /\ \A k \in 1..sop.nout : exp(k, sret.ret[k])
            /\ \A k \in 1..sop.nout : souts[k].spec = ReturnedSpec(sop, sret.ret, k)

\* C14 witness: the in-place variant aliasing only the second output of a
\* two-output class, its inputs of different dtypes: the first output has the
\* promoted dtype, the second the spec of the second input.
C14_Witness ==
    /\ sstage = "executed"
    /\ sop.cls = "pair_inplace{1: 1}"
    /\ sop.inputs[1].numpy /\ sop.inputs[2].numpy
    /\ sop.inputs[1].spec[2] = "float32"
    /\ sop.inputs[2].spec[2] = "int32"
    /\ sret.ret[1][2] = "float64"
    /\ sret.ret[2] = sop.inputs[2].spec

----------------------------------------------------------------------------
(* Properties of the default implementation of an in-place class           *)

ImplRan == idone # <<>> /\ idone.impl # "no"

\* the input Results the destroy map names
AliasedInputs(op) == {d[2] : d \in destroy_map(op)}

\* C15: an in-place class without an impl of its own runs the impl of its
\* base class, copies the result into the array of each aliased input and
\* returns that array: the aliased input then holds the base result and the
\* arrays of the other inputs hold what they held. A class with an impl of its
\* own runs that impl and no result is copied back.
C15_DefaultCopiesBack ==
    ImplRan =>
        IF iop.cls \in BaseImplClasses
        THEN /\ idone.impl = "ok"
             /\ \A d \in destroy_map(iop) :
                   /\ idata[d[1]] = idata[d[2]]
                   /\ iobjs[idata[d[2]]].val =
                         Apply(BaseOf(iop.cls),
                               [k \in 1..Len(iop.inputs) |-> Initial(iop.inputs[k])])
             /\ \A k \in 1..Len(iop.inputs) :
                   iop.inputs[k] \notin AliasedInputs(iop) =>
                       iobjs[idata[iop.inputs[k]]].val = Initial(iop.inputs[k])
        ELSE /\ Len(iobjs) = 3
             /\ idone.impl = "ok" =>
                   iobjs[idata[iop.inputs[1]]].val =
                       Apply(OwnOf(iop.cls),
                             [k \in 1..Len(iop.inputs) |-> Initial(iop.inputs[k])])

----------------------------------------------------------------------------
(* Properties of the views and copies                                      *)

WrittenAfterEvaluation == vnode.op # None /\ vlast.kind = "write"

\* C16: the output of transpose on an array of shape (d1, ..., dk) has the
\* shape (dk, ..., d1) and shares the storage of the source: element
\* [ik, ..., i1] of the output is element [i1, ..., ik] of the source, also
\* after a later write to the source.
C16_TransposeIsView ==
    vnode.op = "transpose" =>
        /\ vnode.err = None
        /\ vnode.data.shape = Reverse(va.shape)
        /\ vnode.spec = Reverse(va.shape)
        /\ vnode.data.buf = va.buf
        /\ \A idx \in IndexSet(va.shape) :
              At(vbufs, vnode.data, Reverse(idx)) = At(vbufs, va, idx)
        /\ WrittenAfterEvaluation =>
              At(vbufs, vnode.data, Reverse(vlast.idx)) = vlast.val

Covered(item, n) ==
    {i \in 0..(n - 1) : i >= item[1] /\ i < item[2] /\ (i - item[1]) % item[3] = 0}

\* C18: the data of a slice taken through a NumpyR is a view of the backing
\* array: every backing element the slice covers, also one written later, is
\* read through the slice; an item assignment on the node raises and changes
\* neither the node nor the backing array.
C18_SliceIsView ==
    /\ [](vnode.op = "get_slice" =>
            /\ vnode.data.buf = va.buf
            /\ vnode.data.shape[1] = Cardinality(Covered(vnode.item, va.shape[1]))
            /\ \A idx \in IndexSet(va.shape) :
                  idx[1] \in Covered(vnode.item, va.shape[1]) =>
                      At(vbufs, vnode.data,
                         <<(idx[1] - vnode.item[1]) \div vnode.item[3]>> \o Tail(idx))
                        = At(vbufs, va, idx)
            /\ vlast.kind = "setitem" => vlast.err = "TypeError")
    /\ [][(vlast' # vlast /\ vlast'.kind = "setitem") =>
              UNCHANGED <<vbufs, va, vnode>>]_vars

\* C18 witness: a strided slice reads an element written after it was taken.
C18_Witness ==
    /\ vnode.op = "get_slice"
    /\ vnode.item = <<0, 8, 2>>
    /\ va.shape = <<3>>
    /\ WrittenAfterEvaluation
    /\ vlast.idx = <<2>>
    /\ vnode.snap[<<2>>] # vlast.val
    /\ At(vbufs, vnode.data, <<1>>) = vlast.val

----------------------------------------------------------------------------
(* Properties of literal, wrap and input                                   *)

\* the table entry of a raw value: 0 when there is none
Entry(x) == IF x.t = "num" THEN literals_db[x.v] ELSE literals_id_db[x.v]

Entries ==
    {literals_db[k] : k \in DOMAIN literals_db}
    \cup {literals_id_db[k] : k \in DOMAIN literals_id_db}

IsRaw(x) == x.t \notin {"res", "op"}

\* C19: literal returns the Result of the table entry of its value (equal
\* hashable values share the entry, an unhashable object has the entry of its
\* id); the Result is constant, no other constant Result exists, and an entry
\* once made is never replaced or removed.
C19_LiteralMemo ==
    /\ [](/\ (last.f = "literal" /\ IsRaw(last.arg)) =>
                /\ last.err = None
                /\ last.ret # 0
                /\ last.ret = Entry(last.arg)
          /\ \A r \in Entries \ {0} : results[r].constant
          /\ Cardinality({r \in 1..Len(results) : results[r].constant})
                = Cardinality({k \in DOMAIN literals_db : literals_db[k] # 0})
                  + Cardinality({k \in DOMAIN literals_id_db : literals_id_db[k] # 0}))
    /\ [][/\ \A k \in DOMAIN literals_db :
                literals_db[k] # 0 => literals_db'[k] = literals_db[k]
          /\ \A k \in DOMAIN literals_id_db :
                literals_id_db[k] # 0 => literals_id_db'[k] = literals_id_db[k]
          /\ SubSeq(results', 1, Len(results)) = results]_vars

\* C19 witness: literal(5.0) after literal(5) returned the Result made for 5,
\* and no Result was created by the call.
C19_Witness ==
    /\ last.f = "literal"
    /\ last.arg.py = "5.0"
    /\ last.ret = literals_db[5]
    /\ last.ret <= last.nres
    /\ Len(results) = last.nres

IsForeign(x) == x.t = "res" /\ results[x.v].cls \notin {"NumpyR", "PythonR"}

\* C20: wrap returns a NumpyR or PythonR argument itself, the output of an
\* operator, and the memoized constant of a raw value; for a Result of
\* another kind it raises and both tables stay as they were; input raises for
\* every Result.
C20_WrapNormalizes ==
    /\ [](/\ last.f = "wrap" =>
                IF last.arg.t = "res"
                THEN IF IsForeign(last.arg)
                     THEN last.err # None
                     ELSE last.err = None /\ last.ret = last.arg.v
                ELSE IF last.arg.t = "op"
                THEN last.err = None /\ last.ret = ops[last.arg.v].out
                ELSE /\ last.err = None
                     /\ last.ret = Entry(last.arg)
                     /\ results[last.ret].constant
          /\ (last.f = "input" /\ last.arg.t = "res") => last.err # None)
    /\ [][(last' # last /\ last'.f \in {"wrap", "input"} /\ last'.err # None) =>
              UNCHANGED <<literals_db, literals_id_db, results>>]_vars

\* C20 witness: wrap of a Result of another kind raised, after wrap of a raw
\* value had made an entry.
C20_Witness ==
    /\ last.f = "wrap"
    /\ IsForeign(last.arg)
    /\ last.err = "TypeError"
    /\ literals_id_db[3] # 0

----------------------------------------------------------------------------
(* Extra headers and libraries of a compiled module                        *)

Requests == {<<p, i>> : p \in Procs, i \in 1..MaxFactoryCalls}

Made(r) == r[2] <= Len(history[r[1]])

Request(r) == history[r[1]][r[2]]

\* C21: two c_thunk_factory calls whose headers or libraries differ use
\* different module names.
C21_CustomizeInModuleName ==
    \A r1 \in Requests, r2 \in Requests :
        (Made(r1) /\ Made(r2) /\ Request(r1).customize # Request(r2).customize)
            => Request(r1).name # Request(r2).name

----------------------------------------------------------------------------
(* Shape checks of the interpreted implementations                         *)

Called == eout # NotCalled

\* C22: the implementation of a tensor-tensor operator called with arrays of
\* different shapes raises 'The dimensions of the inputs do not match.' and
\* computes nothing; the implementation of a tensor-scalar operator called
\* with a second array that is not zero-rank raises and computes nothing.
C22_NoBroadcasting ==
    Called =>
        /\ (eop.cls \in SameShapesClasses /\ eop.x.shape # eop.y.shape) =>
              /\ eout.err = "The dimensions of the inputs do not match."
              /\ ~eout.computed
              /\ eout.x = eop.x
        /\ (eop.cls \in TensorScalarClasses /\ Len(eop.y.shape) > 0) =>
              /\ eout.err # None
              /\ ~eout.computed
              /\ eout.x = eop.x

\* C22 witness: add_elemwise_inplace was called with shapes (2, 2) and (2),
\* which numpy would broadcast, and raised.
C22_Witness ==
    /\ Called
    /\ eop.cls = "add_elemwise_inplace"
    /\ eop.x.shape = <<2, 2>>
    /\ eop.y.shape = <<2>>
    /\ eout.err = "The dimensions of the inputs do not match."

----------------------------------------------------------------------------
(* Gradient of an addition                                                 *)

GradCalled == gcall.op # 0

\* the Result r is sum(gz): the output of a sum operator over gz alone
IsSumOf(r, gz) == \E k \in 1..Len(ops) :
    ops[k].cls = "sum" /\ ops[k].inputs = <<gz>> /\ ops[k].out = r

\* C23 as stated: the gradient rule of every addition node returns the
\* output gradient unchanged for each of its two operands.
C23_PassThroughBothSides ==
    GradCalled => gcall.ret = <<gcall.gz, gcall.gz>>

\* C23: the gradient rule of an add_elemwise node returns the output
\* gradient gz unchanged for both operands; the rule of an add_scalar node
\* (add(x, 5) and add(5, x)) returns gz unchanged for the tensor operand and
\* sum(gz) for the scalar operand.
C23_AddGradient ==
    GradCalled =>
        /\ gcall.ret[1] = gcall.gz
        /\ ops[gcall.op].cls = "add_elemwise" => gcall.ret[2] = gcall.gz
        /\ ops[gcall.op].cls = "add_scalar" =>
              /\ results[ops[gcall.op].inputs[2]].constant
              /\ results[ops[gcall.op].inputs[2]].rank = 0
              /\ IsSumOf(gcall.ret[2], gcall.gz)

\* C23 witness: the rule of the node made by add(5, x) was called.
C23_Witness ==
    /\ GradCalled
    /\ ops[gcall.op].cls = "add_scalar"
    /\ \E i \in 1..Len(results) : literals_db[5] = i /\ ops[gcall.op].inputs = <<1, i>>

----------------------------------------------------------------------------
(* Readers of a destroyed Result                                           *)

Position(k) == CHOOSE i \in 1..Len(hrun) : hrun[i].op = k

Before(j, k) == Ran(j) /\ Ran(k) /\ Position(j) < Position(k)

\* C24: a consumer of the destroyed Result that is executed before the
\* destroyer, or without it, reads the original values; a consumer executed
\* after the destroyer reads the values the destroyer wrote, which are the
\* values of the destroyer's output.
C24_ReadersBeforeDestroyer ==
    \A c \in Consumers : Ran(c) =>
        IF Before(Destroyer, c)
        THEN /\ hrun[Position(c)].read = <<hobjs[hdata[hops[Destroyer].out]].val>>
             /\ hrun[Position(c)].read # <<Initial(Destroyed)>>
        ELSE hrun[Position(c)].read = <<Initial(Destroyed)>>

\* C24 witness: one consumer ran before the destroyer and the other after
\* it, and all four operators were executed.
C24_Witness ==
    /\ Len(hrun) = 4
    /\ Before(2, Destroyer)
    /\ Before(Destroyer, 3)

----------------------------------------------------------------------------
(* Aliasing maps that must be refused                                      *)

\* the map aliases an output that is not a loop output
AliasesNonLoopOutput ==
    LET c == Names(mreq.base)
    IN  \E p \in mreq.dmap : p[1] < Len(c.onames) /\ ~InSeq(c.onames[p[1] + 1], c.lonames)

\* the map names an input position the operator does not have
NamesMissingInput == \E p \in mreq.dmap : p[2] >= Len(Names(mreq.base).inames)

\* the map aliases two outputs onto the same input
AliasesTwoOutputsOnOneInput ==
    \E p \in mreq.dmap, q \in mreq.dmap : p # q /\ p[2] = q[2]

\* C25: a variant with such a map is never constructed, so that no kernel is
\* generated for it and no buffer is written.
C25_BadMapRejected ==
    (AliasesNonLoopOutput \/ NamesMissingInput \/ AliasesTwoOutputsOnOneInput)
        => mrun.stage \in {"new", "derived", "failed"}

----------------------------------------------------------------------------
(* The choice between the two loops                                        *)

\* the loop arrays of the operator: its loop inputs that are not aliased to
\* an output, and its loop outputs
LoopArrays ==
    LET c == ElemClass(lop.cls)
    IN  {lop.arr[lop.inputs[k]] :
            k \in {j \in 1..Len(c.inames) :
                     /\ InSeq(c.inames[j], c.linames)
                     /\ ~\E d \in destroy_map(lop) : d[2] = lop.inputs[j]}}
        \cup (IF c.lonames = <<>> THEN {} ELSE {lop.arr[lop.out]})

\* C26 as stated: the contiguous loop runs exactly when all loop arrays are
\* C-contiguous or all of them are Fortran-contiguous.
C26_ContiguousIffUniformLayout ==
    lrun # NoRun =>
        (lrun.path = "contiguous" <=>
            \/ \A a \in LoopArrays : a.strides = CStrides
            \/ \A a \in LoopArrays : a.strides = FStrides)

\* C26: the contiguous loop runs exactly when all loop arrays are
\* C-contiguous, aligned, writeable and in native byte order, or all of them
\* are Fortran-contiguous, aligned, writeable and in native byte order; the
\* general loop runs otherwise. Arrays outside the loop take no part.
C26_ContiguousIffBehavedUniformLayout ==
    lrun # NoRun =>
        /\ lrun.path \in {"contiguous", "general"}
        /\ lrun.path = "contiguous" <=>
              \/ \A a \in LoopArrays : a.strides = CStrides /\ a.behaved
              \/ \A a \in LoopArrays : a.strides = FStrides /\ a.behaved

\* C26 witness: a tensor-scalar operator ran the general loop on a
\* C-contiguous first input that is not writeable, its scalar being outside
\* the loop.
C26_Witness ==
    /\ lrun # NoRun
    /\ lop.cls = "add_scalar"
    /\ lop.arr[1].strides = CStrides
    /\ ~lop.arr[1].behaved
    /\ lrun.path = "general"

----------------------------------------------------------------------------
(* build leaves the stack of modes as it found it                          *)

\* C27: after every call of build, whether f returned or raised, the stack
\* of modes is the one the call found.
C27_BuildRestoresModes ==
    blast.outcome # None => blast.after = blast.before

====
